---- MODULE Spec2Model ----
(***************************************************************************)
(* BrainPin backend (infra/backend/lambda/app.py): the request handlers    *)
(* for links, categories and sublinks over two DynamoDB tables.            *)
(*                                                                         *)
(* Strings are sequences of one-character strings, so that strip(),        *)
(* lower(), startswith() and the phone normalisation are computed.  A JSON *)
(* value of a request body is a tagged record [t, v]; a request body and a *)
(* stored item are functions from attribute names to values, an absent     *)
(* attribute being absent from the DOMAIN.                                 *)
(***************************************************************************)
EXTENDS Integers, Sequences, FiniteSets, TLC

VARIABLES
    categories,   \* the categories table: category_id -> item
    links,        \* the links table: link_id -> item
    req,          \* the request being handled (an invocation of handler), or none
    resp,         \* the response of the last completed request, with the request's route
    nreq,         \* number of requests served so far
    refused,      \* history: the category ids whose deletion was answered 409
    lastWrite,    \* history: the process that wrote a sublink list last (0: none)
    procs         \* the requests in flight (concurrent invocations): per-process position and locals

vars == <<categories, links, req, resp, nreq, refused, lastWrite, procs>>

(***************************************************************************)
(* Bounds of the model.                                                    *)
(***************************************************************************)
NumCategoryIds == 2
NumLinkIds == 2
NumSublinkIds == 2
MaxRequests == 4

(***************************************************************************)
(* Strings.                                                                *)
(***************************************************************************)
Whitespace == {" ", "\t"}

RECURSIVE LStrip(_)
LStrip(s) ==
    IF s = <<>> THEN s
    ELSE IF Head(s) \in Whitespace THEN LStrip(Tail(s)) ELSE s

RECURSIVE RStrip(_)
RStrip(s) ==
    IF s = <<>> THEN s
    ELSE IF s[Len(s)] \in Whitespace THEN RStrip(SubSeq(s, 1, Len(s) - 1)) ELSE s

\* str.strip()
Strip(s) == RStrip(LStrip(s))

LowerChar(c) ==
    CASE c = "H" -> "h" [] c = "T" -> "t" [] c = "P" -> "p" [] c = "S" -> "s"
      [] c = "E" -> "e" [] c = "L" -> "l" [] c = "X" -> "x"
      [] OTHER -> c

\* str.lower()
Lower(s) == [i \in 1..Len(s) |-> LowerChar(s[i])]

\* str.startswith(prefix)
StartsWith(s, prefix) ==
    /\ Len(s) >= Len(prefix)
    /\ SubSeq(s, 1, Len(prefix)) = prefix

RECURSIVE RemoveChars(_, _)
RemoveChars(s, drop) ==
    IF s = <<>> THEN <<>>
    ELSE IF Head(s) \in drop THEN RemoveChars(Tail(s), drop)
    ELSE <<Head(s)>> \o RemoveChars(Tail(s), drop)

RECURSIVE CountChar(_, _)
CountChar(s, c) ==
    IF s = <<>> THEN 0
    ELSE (IF Head(s) = c THEN 1 ELSE 0) + CountChar(Tail(s), c)

DigitChars == {"0", "1", "2", "3", "4", "5", "6", "7", "8", "9"}

\* str.isdigit(): false for the empty string
IsDigit(s) == s # <<>> /\ \A i \in 1..Len(s) : s[i] \in DigitChars

(***************************************************************************)
(* JSON values of a request body, and results of validators.               *)
(***************************************************************************)
JNull == [t |-> "null", v |-> <<>>]
JStr(s) == [t |-> "str", v |-> s]
JNum == [t |-> "num", v |-> <<>>]
JList(seq) == [t |-> "list", v |-> seq]
JObj(fields) == [t |-> "obj", v |-> fields]

\* dict.get(key): None for a missing key
Get(body, key) == IF key \in DOMAIN body THEN body[key] ELSE JNull

Ok(value) == [ok |-> TRUE, v |-> value]

\* raise HttpError(status_code, message)
HttpError(status, message) == [ok |-> FALSE, status |-> status, message |-> message]

\* a fault reported with the text of the exception
FaultDetailed ==
    [ok |-> FALSE, status |-> 500, message |-> "ClientError: InternalServerError"]

\* an exception that is no HttpError (a storage fault, a rejected parameter)
Fault == [ok |-> FALSE, status |-> 500, message |-> "Internal server error"]

MaxNameLength == 128
MaxIdLength == 64
MaxUrlLength == 2048
MaxDescriptionLength == 512

ValidateString(value, field, maxLength) ==
    IF value.t # "str" THEN HttpError(400, "'" \o field \o "' must be a string")
    ELSE LET trimmed == Strip(value.v) IN
         IF trimmed = <<>> THEN HttpError(400, "'" \o field \o "' cannot be empty")
         ELSE IF Len(trimmed) > maxLength
              THEN HttpError(400, "'" \o field \o "' must not exceed "
                                   \o ToString(maxLength) \o " characters")
              ELSE Ok(trimmed)

PhoneSeparators == Whitespace \cup {"(", ")", ".", "-"}

\* a normalisation that never returns the leading '+'
NormalizePhoneNumberNoPlus(raw, field) ==
    LET digits == RemoveChars(raw, PhoneSeparators)
        number == IF StartsWith(digits, <<"+">>) THEN Tail(digits) ELSE digits
    IN  IF ~IsDigit(number)
        THEN HttpError(400, "'" \o field \o "' may only contain digits aside from a leading '+'")
        ELSE Ok(number)

NormalizePhoneNumber(raw, field) ==
    LET digits == RemoveChars(raw, PhoneSeparators)
        plusCount == CountChar(digits, "+")
        hasPlus == StartsWith(digits, <<"+">>)
        number == IF hasPlus THEN Tail(digits) ELSE digits
    IN  IF digits = <<>> THEN HttpError(400, "'" \o field \o "' cannot be empty")
        ELSE IF plusCount > 1
             THEN HttpError(400, "'" \o field \o "' contains too many '+' characters")
        ELSE IF plusCount = 1 /\ ~hasPlus
             THEN HttpError(400, "'" \o field \o "' must start with '+' if it contains one")
        ELSE IF ~IsDigit(number)
             THEN HttpError(400, "'" \o field \o "' may only contain digits aside from a leading '+'")
        ELSE Ok(IF hasPlus THEN <<"+">> \o number ELSE number)

TelPrefix == <<"t", "e", "l", ":">>
HttpPrefix == <<"h", "t", "t", "p", ":", "/", "/">>
HttpsPrefix == <<"h", "t", "t", "p", "s", ":", "/", "/">>

ValidateUrl(url, field) ==
    LET str == ValidateString(url, field, MaxUrlLength) IN
    IF ~str.ok THEN str
    ELSE LET trimmed == str.v IN
         IF StartsWith(Lower(trimmed), TelPrefix)
         THEN LET phone == NormalizePhoneNumber(SubSeq(trimmed, 5, Len(trimmed)), field) IN
              IF phone.ok THEN Ok(TelPrefix \o phone.v) ELSE phone
         ELSE IF StartsWith(trimmed, HttpPrefix) \/ StartsWith(trimmed, HttpsPrefix)
              THEN Ok(trimmed)
              ELSE HttpError(400, "'" \o field \o "' must start with http:// or https://")

\* None (no description) is Ok(<<>>): a stored description is never empty
ValidateDescription(value) ==
    IF value.t = "null" THEN Ok(<<>>)
    ELSE IF value.t # "str" THEN HttpError(400, "'description' must be a string")
    ELSE LET trimmed == Strip(value.v) IN
         IF trimmed = <<>> THEN Ok(<<>>)
         ELSE IF Len(trimmed) > MaxDescriptionLength
              THEN HttpError(400, "'description' must not exceed 512 characters")
              ELSE Ok(trimmed)

(***************************************************************************)
(* Identifiers.  An id is generated as a fixed tag and random hex; the     *)
(* model draws the random part from a small pool, so that a collision can  *)
(* happen.                                                                 *)
(***************************************************************************)
HexChars == <<"1", "2", "3", "4", "5", "6", "7", "8", "9">>

\* f"cat-{uuid.uuid4().hex[:12]}"
CategoryId(i) == <<"c", "a", "t", "-", HexChars[i]>>
\* f"lnk-{uuid.uuid4().hex[:12]}"
LinkId(i) == <<"l", "n", "k", "-", HexChars[i]>>
\* f"sln-{uuid.uuid4().hex[:12]}"
SublinkId(i) == <<"s", "l", "n", "-", HexChars[i]>>

GenerateCategoryId == {CategoryId(i) : i \in 1..NumCategoryIds}
GenerateLinkId == {LinkId(i) : i \in 1..NumLinkIds}
GenerateSublinkId == {SublinkId(i) : i \in 1..NumSublinkIds}

(***************************************************************************)
(* Sublink lists.                                                          *)
(***************************************************************************)
\* a dict with an optional "description" key
WithDescription(item, description) ==
    IF description = <<>> THEN item ELSE item @@ [description |-> description]

\* one iteration of the loop of _validate_sublinks; generated[index] is the id
\* _generate_sublink_id() returns for the entry at index
RECURSIVE ValidateSublinksFrom(_, _, _, _)
ValidateSublinksFrom(value, index, generated, sanitized) ==
    IF index > Len(value) THEN Ok(sanitized)
    ELSE LET candidate == value[index]
             idx == ToString(index - 1)
             seenIds == {sanitized[i].id : i \in 1..Len(sanitized)}
         IN
         IF candidate.t # "obj"
         THEN HttpError(400, "sublinks[" \o idx \o "] must be an object")
         ELSE LET rawId == Get(candidate.v, "id")
                  sublinkId == IF rawId.t = "null" THEN Ok(generated[index])
                               ELSE ValidateString(rawId, "sublinks[" \o idx \o "].id", MaxIdLength)
              IN
              IF ~sublinkId.ok THEN sublinkId
              ELSE IF sublinkId.v \in seenIds
                   THEN HttpError(400, "Sublink identifiers must be unique")
              ELSE LET name == ValidateString(Get(candidate.v, "name"),
                                              "sublinks[" \o idx \o "].name", MaxNameLength)
                       url == ValidateUrl(Get(candidate.v, "url"), "sublinks[" \o idx \o "].url")
                       description == ValidateDescription(Get(candidate.v, "description"))
                   IN
                   IF ~name.ok THEN name
                   ELSE IF ~url.ok THEN url
                   ELSE IF ~description.ok THEN description
                   ELSE ValidateSublinksFrom(value, index + 1, generated,
                            Append(sanitized,
                                   WithDescription([id |-> sublinkId.v, name |-> name.v, url |-> url.v],
                                                   description.v)))

ValidateSublinks(value, generated) ==
    IF value.t = "null" THEN Ok(<<>>)
    ELSE IF value.t # "list" THEN HttpError(400, "'sublinks' must be a list")
    ELSE ValidateSublinksFrom(value.v, 1, generated, <<>>)

\* keeps the entries that carry id, name and url; never fails
ExtractSublinks(item) ==
    IF "sublinks" \notin DOMAIN item THEN <<>>
    ELSE LET raw == item.sublinks
             wellFormed(candidate) == {"id", "name", "url"} \subseteq DOMAIN candidate
             kept == SelectSeq(raw, wellFormed)
         IN  [i \in 1..Len(kept) |->
                 WithDescription([id |-> kept[i].id, name |-> kept[i].name, url |-> kept[i].url],
                                 IF "description" \in DOMAIN kept[i] THEN kept[i].description
                                 ELSE <<>>)]

(***************************************************************************)
(* Category id lists and serialisation.                                    *)
(***************************************************************************)
\* the candidates trimmed, the empty ones dropped, each kept at its first place
RECURSIVE TrimmedDistinct(_, _)
TrimmedDistinct(raw, acc) ==
    IF raw = <<>> THEN acc
    ELSE LET trimmed == Strip(Head(raw))
             seen == {acc[i] : i \in 1..Len(acc)}
         IN  TrimmedDistinct(Tail(raw),
                 IF trimmed # <<>> /\ trimmed \notin seen THEN Append(acc, trimmed) ELSE acc)

Serialize(item) ==
    LET listed == IF "category_ids" \in DOMAIN item
                  THEN TrimmedDistinct(item.category_ids, <<>>)
                  ELSE <<>>
        legacy == IF "category_id" \in DOMAIN item THEN Strip(item.category_id) ELSE <<>>
        categoryIds == IF legacy # <<>> /\ legacy \notin {listed[i] : i \in 1..Len(listed)}
                       THEN <<legacy>> \o listed
                       ELSE listed
        payload == [id |-> item.link_id, name |-> item.name, url |-> item.url,
                    categoryIds |-> categoryIds, sublinks |-> ExtractSublinks(item)]
        primary == IF categoryIds # <<>> THEN [categoryId |-> categoryIds[1]] ELSE <<>>
    IN  WithDescription(payload @@ primary,
                        IF "description" \in DOMAIN item THEN item.description ELSE <<>>)

SerializeCategory(item) ==
    WithDescription([id |-> item.category_id, name |-> item.name],
                    IF "description" \in DOMAIN item THEN item.description ELSE <<>>)

RECURSIVE SanitizeFrom(_, _, _, _, _)
SanitizeFrom(rawItems, index, field, isList, sanitized) ==
    IF index > Len(rawItems)
    THEN IF sanitized = <<>>
         THEN HttpError(400, "'" \o field \o "' must contain at least one category identifier")
         ELSE Ok(sanitized)
    ELSE LET label == IF isList THEN field \o "[" \o ToString(index - 1) \o "]" ELSE field
             categoryId == ValidateString(rawItems[index], label, MaxIdLength)
         IN  IF ~categoryId.ok THEN categoryId
             ELSE SanitizeFrom(rawItems, index + 1, field, isList,
                      IF categoryId.v \in {sanitized[i] : i \in 1..Len(sanitized)}
                      THEN sanitized ELSE Append(sanitized, categoryId.v))

\* a sanitiser that returns the ids of a list last first
SanitizeCategoryIdsReversed(value, field) ==
    IF value.t = "null"
    THEN HttpError(400, "'" \o field \o "' must contain at least one category identifier")
    ELSE IF value.t = "list"
    THEN LET result == SanitizeFrom(value.v, 1, field, TRUE, <<>>) IN
         IF ~result.ok THEN result
         ELSE Ok([i \in 1..Len(result.v) |-> result.v[Len(result.v) + 1 - i]])
    ELSE IF value.t = "str" THEN SanitizeFrom(<<value>>, 1, field, FALSE, <<>>)
    ELSE HttpError(400, "'" \o field \o "' must be a list of category identifiers")

SanitizeCategoryIds(value, field) ==
    IF value.t = "null"
    THEN HttpError(400, "'" \o field \o "' must contain at least one category identifier")
    ELSE IF value.t = "list" THEN SanitizeFrom(value.v, 1, field, TRUE, <<>>)
    ELSE IF value.t = "str" THEN SanitizeFrom(<<value>>, 1, field, FALSE, <<>>)
    ELSE HttpError(400, "'" \o field \o "' must be a list of category identifiers")

(***************************************************************************)
(* The storage layer: two tables keyed by id, with conditional writes.     *)
(***************************************************************************)
Put(tbl, key, item) == [k \in DOMAIN tbl \cup {key} |-> IF k = key THEN item ELSE tbl[k]]

Remove(tbl, key) == [k \in DOMAIN tbl \ {key} |-> tbl[k]]

\* a put_item without its condition
PutItemUnconditional(tbl, key, item) == [ok |-> TRUE, table |-> Put(tbl, key, item)]

\* put_item(Item, ConditionExpression="attribute_not_exists(key)")
PutItem(tbl, key, item) ==
    IF key \in DOMAIN tbl THEN [ok |-> FALSE, table |-> tbl]
    ELSE [ok |-> TRUE, table |-> Put(tbl, key, item)]

\* SET and REMOVE clauses of an update expression applied to one item
ApplyUpdate(item, sets, removes) ==
    [a \in (DOMAIN item \cup DOMAIN sets) \ removes |->
        IF a \in DOMAIN sets THEN sets[a] ELSE item[a]]

\* update_item(..., ConditionExpression="attribute_exists(key)", ReturnValues="ALL_NEW")
UpdateItem(tbl, key, sets, removes) ==
    IF key \notin DOMAIN tbl THEN [ok |-> FALSE, table |-> tbl, attributes |-> <<>>]
    ELSE LET new == ApplyUpdate(tbl[key], sets, removes) IN
         [ok |-> TRUE, table |-> Put(tbl, key, new), attributes |-> new]

\* delete_item(Key, ConditionExpression="attribute_exists(key)")
DeleteItem(tbl, key) ==
    IF key \notin DOMAIN tbl THEN [ok |-> FALSE, table |-> tbl]
    ELSE [ok |-> TRUE, table |-> Remove(tbl, key)]

(***************************************************************************)
(* Responses.                                                              *)
(***************************************************************************)
\* response(status_code, body); body None is the empty payload
Response(status, body) == [statusCode |-> status, body |-> body]

NoBody == <<>>

\* with_error_handling: an HttpError becomes its status and message, anything
\* else 500 'Internal server error'
ErrorResponse(err) == Response(err.status, [message |-> err.message])

\* the outcome of a handler: the tables afterwards and the response
Outcome(cats, lnks, response) == [categories |-> cats, links |-> lnks, response |-> response]

\* _parse_json_body: no body is {}, the body must be a JSON object
ParseJsonBody(raw) ==
    IF raw.t = "empty" THEN Ok(<<>>)
    ELSE IF raw.t = "invalid" THEN HttpError(400, "Request body must be valid JSON")
    ELSE IF raw.t # "obj" THEN HttpError(400, "Request body must be a JSON object")
    ELSE Ok(raw.v)

(***************************************************************************)
(* Categories.                                                             *)
(***************************************************************************)
\* _create_category; categoryId is what _generate_category_id() returns
CreateCategory(cats, lnks, body, categoryId) ==
    LET name == ValidateString(Get(body, "name"), "name", MaxNameLength)
        description == ValidateDescription(Get(body, "description"))
    IN  IF ~name.ok THEN Outcome(cats, lnks, ErrorResponse(name))
        ELSE IF ~description.ok THEN Outcome(cats, lnks, ErrorResponse(description))
        ELSE LET item == WithDescription([category_id |-> categoryId, name |-> name.v],
                                         description.v)
                 put == PutItem(cats, categoryId, item)
             IN  IF ~put.ok
                 THEN Outcome(cats, lnks, ErrorResponse(HttpError(409, "Category already exists")))
                 ELSE Outcome(put.table, lnks, Response(201, [category |-> SerializeCategory(item)]))

\* _get_category
GetCategory(cats, lnks, categoryId) ==
    IF categoryId \notin DOMAIN cats
    THEN Outcome(cats, lnks, ErrorResponse(HttpError(404, "Category not found")))
    ELSE Outcome(cats, lnks, Response(200, [category |-> SerializeCategory(cats[categoryId])]))

\* the SET / REMOVE statements _update_category and _update_link build for
\* "description"
DescriptionUpdate(description) ==
    IF description = <<>> THEN [sets |-> <<>>, removes |-> {"description"}]
    ELSE [sets |-> [description |-> description], removes |-> {}]

\* _update_category
UpdateCategory(cats, lnks, categoryId, body) ==
    IF DOMAIN body = {}
    THEN Outcome(cats, lnks,
             ErrorResponse(HttpError(400, "Request body must contain at least one field to update")))
    ELSE
    LET name == IF "name" \in DOMAIN body
                THEN ValidateString(body["name"], "name", MaxNameLength) ELSE Ok(<<>>)
        description == IF "description" \in DOMAIN body
                       THEN ValidateDescription(body["description"]) ELSE Ok(<<>>)
    IN  IF ~name.ok THEN Outcome(cats, lnks, ErrorResponse(name))
        ELSE IF ~description.ok THEN Outcome(cats, lnks, ErrorResponse(description))
        ELSE
        LET nameSet == IF "name" \in DOMAIN body THEN [name |-> name.v] ELSE <<>>
            descr == IF "description" \in DOMAIN body THEN DescriptionUpdate(description.v)
                     ELSE [sets |-> <<>>, removes |-> {}]
            sets == nameSet @@ descr.sets
            removes == descr.removes
        IN  IF DOMAIN sets = {} /\ removes = {}
            THEN Outcome(cats, lnks, ErrorResponse(HttpError(400, "No updatable fields provided")))
            \* ExpressionAttributeValues=values or None: with no SET statement the
            \* parameter is None, which boto3 refuses (no ClientError) before any call
            ELSE IF DOMAIN sets = {} THEN Outcome(cats, lnks, ErrorResponse(Fault))
            ELSE LET upd == UpdateItem(cats, categoryId, sets, removes) IN
                 IF ~upd.ok
                 THEN Outcome(cats, lnks, ErrorResponse(HttpError(404, "Category not found")))
                 ELSE Outcome(upd.table, lnks,
                              Response(200, [category |-> SerializeCategory(upd.attributes)]))

(***************************************************************************)
(* Scans.  A scan call evaluates at most `limit` items after the cursor,   *)
(* in key order, returns those that pass the filter, and returns a cursor  *)
(* (LastEvaluatedKey, here the position of the last evaluated key; 0 is    *)
(* none) when it stopped at the limit.                                     *)
(***************************************************************************)
MaxPageLimit == 2

LinkIdOrder == [i \in 1..NumLinkIds |-> LinkId(i)]
CategoryIdOrder == [i \in 1..NumCategoryIds |-> CategoryId(i)]

RECURSIVE SetToSeq(_)
\* a set of positions as an ascending sequence
SetToSeq(positions) ==
    IF positions = {} THEN <<>>
    ELSE LET least == CHOOSE i \in positions : \A j \in positions : i <= j
         IN  <<least>> \o SetToSeq(positions \ {least})

\* table.scan(ExclusiveStartKey=...): the items one call evaluates, before
\* the filter expression is applied to them, and the cursor it returns
Scan(tbl, order, startKey, limit) ==
    LET present == {i \in (startKey + 1)..Len(order) : order[i] \in DOMAIN tbl}
        evaluated == {i \in present : Cardinality({j \in present : j <= i}) <= limit}
        positions == SetToSeq(evaluated)
    IN  [Items |-> [i \in 1..Len(positions) |-> tbl[order[positions[i]]]],
         LastEvaluatedKey |-> IF Cardinality(evaluated) = limit
                              THEN positions[Len(positions)] ELSE 0]

\* a filter that looks at the category_ids list only
ReferencesCategoryListOnly(item, categoryId) ==
    /\ "category_ids" \in DOMAIN item
    /\ \E i \in 1..Len(item.category_ids) : item.category_ids[i] = categoryId

\* a filter that looks at the legacy field only
ReferencesCategoryLegacyOnly(item, categoryId) ==
    /\ "category_id" \in DOMAIN item
    /\ item.category_id = categoryId

\* Attr("category_ids").contains(category_id) | Attr("category_id").eq(category_id)
ReferencesCategory(item, categoryId) ==
    \/ /\ "category_ids" \in DOMAIN item
       /\ \E i \in 1..Len(item.category_ids) : item.category_ids[i] = categoryId
    \/ /\ "category_id" \in DOMAIN item
       /\ item.category_id = categoryId

\* one table.scan call of _category_has_links
CategoryHasLinksPage(lnks, categoryId, startKey, limit) ==
    LET references(item) == ReferencesCategory(item, categoryId)
        page == Scan(lnks, LinkIdOrder, startKey, limit)
    IN  [page EXCEPT !.Items = SelectSeq(page.Items, references)]

\* the loop of _category_has_links from cursor startKey
RECURSIVE CategoryHasLinksFrom(_, _, _, _)
CategoryHasLinksFrom(lnks, categoryId, startKey, limit) ==
    LET result == CategoryHasLinksPage(lnks, categoryId, startKey, limit)
    IN  IF result.Items # <<>> THEN TRUE
        ELSE IF result.LastEvaluatedKey = 0 THEN FALSE
        ELSE CategoryHasLinksFrom(lnks, categoryId, result.LastEvaluatedKey, limit)

\* a check that looks at the first page only
CategoryHasLinksFirstPage(lnks, categoryId, limit) ==
    CategoryHasLinksPage(lnks, categoryId, 0, limit).Items # <<>>

CategoryHasLinks(lnks, categoryId, limit) == CategoryHasLinksFrom(lnks, categoryId, 0, limit)

\* the conditional delete of _delete_category, after the has-links check
DeleteCategoryItem(cats, lnks, categoryId) ==
    LET del == DeleteItem(cats, categoryId) IN
    IF ~del.ok THEN Outcome(cats, lnks, ErrorResponse(HttpError(404, "Category not found")))
    ELSE Outcome(del.table, lnks, Response(204, NoBody))

\* _delete_category
DeleteCategory(cats, lnks, categoryId, limit) ==
    IF CategoryHasLinks(lnks, categoryId, limit)
    THEN Outcome(cats, lnks,
             ErrorResponse(HttpError(409, "Category cannot be deleted while links reference it")))
    ELSE DeleteCategoryItem(cats, lnks, categoryId)

\* the loop of _list_links and _list_categories from cursor startKey
RECURSIVE ScanAllFrom(_, _, _, _)
ScanAllFrom(tbl, order, startKey, limit) ==
    LET result == Scan(tbl, order, startKey, limit)
    IN  IF result.LastEvaluatedKey = 0 THEN result.Items
        ELSE result.Items \o ScanAllFrom(tbl, order, result.LastEvaluatedKey, limit)

\* _list_categories
ListCategories(cats, lnks, limit) ==
    LET items == ScanAllFrom(cats, CategoryIdOrder, 0, limit) IN
    Outcome(cats, lnks,
            Response(200, [categories |-> [i \in 1..Len(items) |-> SerializeCategory(items[i])]]))

\* a listing that returns after its first scan call
ListLinksFirstPage(cats, lnks, limit) ==
    LET items == Scan(lnks, LinkIdOrder, 0, limit).Items IN
    Outcome(cats, lnks,
            Response(200, [links |-> [i \in 1..Len(items) |-> Serialize(items[i])]]))

\* _list_links
ListLinks(cats, lnks, limit) ==
    LET items == ScanAllFrom(lnks, LinkIdOrder, 0, limit) IN
    Outcome(cats, lnks,
            Response(200, [links |-> [i \in 1..Len(items) |-> Serialize(items[i])]]))

(***************************************************************************)
(* Links.                                                                  *)
(***************************************************************************)
\* an existence check that accepts every id
AssertCategoryExistsUnchecked(cats, categoryId) == Ok(categoryId)

\* _assert_category_exists
AssertCategoryExists(cats, categoryId) ==
    IF categoryId \in DOMAIN cats THEN Ok(categoryId)
    ELSE HttpError(400, "categoryId must reference an existing category")

\* for category_id in category_ids: _assert_category_exists(category_id)
RECURSIVE AssertCategoriesExist(_, _)
AssertCategoriesExist(cats, categoryIds) ==
    IF categoryIds = <<>> THEN Ok(<<>>)
    ELSE LET first == AssertCategoryExists(cats, Head(categoryIds)) IN
         IF ~first.ok THEN first ELSE AssertCategoriesExist(cats, Tail(categoryIds))

\* the field read by _extract_category_ids_from_body and _update_link:
\* "categoryIds" when present, otherwise the legacy "categoryId"; Ok(<<>>)
\* when the body has neither
BodyCategoryIds(body) ==
    IF "categoryIds" \in DOMAIN body THEN SanitizeCategoryIds(body["categoryIds"], "categoryIds")
    ELSE IF "categoryId" \in DOMAIN body THEN SanitizeCategoryIds(body["categoryId"], "categoryId")
    ELSE Ok(<<>>)

\* _create_link up to the existence checks: name, url, the category ids
CreateLinkFields(body) ==
    LET name == ValidateString(Get(body, "name"), "name", MaxNameLength)
        url == ValidateUrl(Get(body, "url"), "url")
        categoryIds == BodyCategoryIds(body)
    IN  IF ~name.ok THEN name
        ELSE IF ~url.ok THEN url
        ELSE IF ~categoryIds.ok THEN categoryIds
        ELSE IF categoryIds.v = <<>> THEN HttpError(400, "At least one category must be provided")
        ELSE Ok([name |-> name.v, url |-> url.v, category_ids |-> categoryIds.v])

\* _create_link after the existence checks: description, sublinks, the item
CreateLinkItem(body, fields, linkId, generated) ==
    LET description == ValidateDescription(Get(body, "description"))
        sublinks == ValidateSublinks(Get(body, "sublinks"), generated)
    IN  IF ~description.ok THEN description
        ELSE IF ~sublinks.ok THEN sublinks
        ELSE LET item == WithDescription(
                             [link_id |-> linkId, name |-> fields.name, url |-> fields.url,
                              category_id |-> fields.category_ids[1],
                              category_ids |-> fields.category_ids],
                             description.v)
             IN  Ok(IF sublinks.v # <<>> THEN item @@ [sublinks |-> sublinks.v] ELSE item)

\* the conditional put of _create_link and its response
CreateLinkPut(cats, lnks, item) ==
    LET put == PutItem(lnks, item.link_id, item) IN
    IF ~put.ok THEN Outcome(cats, lnks, ErrorResponse(HttpError(409, "Link already exists")))
    ELSE Outcome(cats, put.table, Response(201, [link |-> Serialize(item)]))

\* _create_link; linkId is what _generate_link_id() returns
CreateLink(cats, lnks, body, linkId, generated) ==
    LET fields == CreateLinkFields(body) IN
    IF ~fields.ok THEN Outcome(cats, lnks, ErrorResponse(fields))
    ELSE LET exist == AssertCategoriesExist(cats, fields.v.category_ids) IN
         IF ~exist.ok THEN Outcome(cats, lnks, ErrorResponse(exist))
         ELSE LET item == CreateLinkItem(body, fields.v, linkId, generated) IN
              IF ~item.ok THEN Outcome(cats, lnks, ErrorResponse(item))
              ELSE CreateLinkPut(cats, lnks, item.v)

\* _fetch_link_item
FetchLinkItem(lnks, linkId) ==
    IF linkId \in DOMAIN lnks THEN Ok(lnks[linkId]) ELSE HttpError(404, "Link not found")

\* _get_link
GetLink(cats, lnks, linkId) ==
    LET item == FetchLinkItem(lnks, linkId) IN
    IF ~item.ok THEN Outcome(cats, lnks, ErrorResponse(item))
    ELSE Outcome(cats, lnks, Response(200, [link |-> Serialize(item.v)]))

\* _update_link up to the existence checks: name, url, the category ids
UpdateLinkFields(body) ==
    IF DOMAIN body = {}
    THEN HttpError(400, "Request body must contain at least one field to update")
    ELSE
    LET name == IF "name" \in DOMAIN body
                THEN ValidateString(body["name"], "name", MaxNameLength) ELSE Ok(<<>>)
        url == IF "url" \in DOMAIN body THEN ValidateUrl(body["url"], "url") ELSE Ok(<<>>)
        categoryIds == BodyCategoryIds(body)
    IN  IF ~name.ok THEN name
        ELSE IF ~url.ok THEN url
        ELSE IF ~categoryIds.ok THEN categoryIds
        ELSE Ok([sets |-> (IF "name" \in DOMAIN body THEN [name |-> name.v] ELSE <<>>)
                          @@ (IF "url" \in DOMAIN body THEN [url |-> url.v] ELSE <<>>),
                 category_ids |-> categoryIds.v])

\* statements that set category_ids and leave category_id as it is
UpdateLinkStatementsListOnly(body, fields, generated) ==
    LET categorySet == IF fields.category_ids # <<>>
                       THEN [category_ids |-> fields.category_ids]
                       ELSE <<>>
        description == IF "description" \in DOMAIN body
                       THEN ValidateDescription(body["description"]) ELSE Ok(<<>>)
        sublinks == IF "sublinks" \in DOMAIN body /\ body["sublinks"].t # "null"
                    THEN ValidateSublinks(body["sublinks"], generated) ELSE Ok(<<>>)
    IN  IF ~description.ok THEN description
        ELSE IF ~sublinks.ok THEN sublinks
        ELSE
        LET descr == IF "description" \in DOMAIN body THEN DescriptionUpdate(description.v)
                     ELSE [sets |-> <<>>, removes |-> {}]
            subSet == IF "sublinks" \in DOMAIN body /\ body["sublinks"].t # "null"
                      THEN [sublinks |-> sublinks.v] ELSE <<>>
            subRemove == IF "sublinks" \in DOMAIN body /\ body["sublinks"].t = "null"
                         THEN {"sublinks"} ELSE {}
            sets == fields.sets @@ categorySet @@ descr.sets @@ subSet
            removes == descr.removes \cup subRemove
        IN  IF DOMAIN sets = {} /\ removes = {}
            THEN HttpError(400, "No updatable fields provided")
            ELSE Ok([sets |-> sets, removes |-> removes])

\* _update_link after the existence checks: the category SETs, description,
\* sublinks, and the check that some statement was built
UpdateLinkStatements(body, fields, generated) ==
    LET categorySet == IF fields.category_ids # <<>>
                       THEN [category_ids |-> fields.category_ids,
                             category_id |-> fields.category_ids[1]]
                       ELSE <<>>
        description == IF "description" \in DOMAIN body
                       THEN ValidateDescription(body["description"]) ELSE Ok(<<>>)
        sublinks == IF "sublinks" \in DOMAIN body /\ body["sublinks"].t # "null"
                    THEN ValidateSublinks(body["sublinks"], generated) ELSE Ok(<<>>)
    IN  IF ~description.ok THEN description
        ELSE IF ~sublinks.ok THEN sublinks
        ELSE
        LET descr == IF "description" \in DOMAIN body THEN DescriptionUpdate(description.v)
                     ELSE [sets |-> <<>>, removes |-> {}]
            subSet == IF "sublinks" \in DOMAIN body /\ body["sublinks"].t # "null"
                      THEN [sublinks |-> sublinks.v] ELSE <<>>
            subRemove == IF "sublinks" \in DOMAIN body /\ body["sublinks"].t = "null"
                         THEN {"sublinks"} ELSE {}
            sets == fields.sets @@ categorySet @@ descr.sets @@ subSet
            removes == descr.removes \cup subRemove
        IN  IF DOMAIN sets = {} /\ removes = {}
            THEN HttpError(400, "No updatable fields provided")
            ELSE Ok([sets |-> sets, removes |-> removes])

\* a write that replaces the record by the fields of the request
UpdateLinkWriteReplacing(cats, lnks, linkId, statements) ==
    IF DOMAIN statements.sets = {} THEN Outcome(cats, lnks, ErrorResponse(Fault))
    ELSE IF linkId \notin DOMAIN lnks
    THEN Outcome(cats, lnks, ErrorResponse(HttpError(404, "Link not found")))
    ELSE LET new == statements.sets @@ [link_id |-> linkId, name |-> lnks[linkId].name,
                                        url |-> lnks[linkId].url] IN
         Outcome(cats, Put(lnks, linkId, new), Response(200, [link |-> Serialize(new)]))

\* the update_item call of _update_link and its response
UpdateLinkWrite(cats, lnks, linkId, statements) ==
    \* ExpressionAttributeValues=values or None: with no SET statement the
    \* parameter is None, which boto3 refuses (no ClientError) before any call
    IF DOMAIN statements.sets = {} THEN Outcome(cats, lnks, ErrorResponse(Fault))
    ELSE LET upd == UpdateItem(lnks, linkId, statements.sets, statements.removes) IN
         IF ~upd.ok THEN Outcome(cats, lnks, ErrorResponse(HttpError(404, "Link not found")))
         ELSE Outcome(cats, upd.table, Response(200, [link |-> Serialize(upd.attributes)]))

\* an update that writes name and url before it checks the rest
UpdateLinkEager(cats, lnks, linkId, body, generated) ==
    LET fields == UpdateLinkFields(body) IN
    IF ~fields.ok THEN Outcome(cats, lnks, ErrorResponse(fields))
    ELSE LET early == IF DOMAIN fields.v.sets = {} THEN lnks
                      ELSE UpdateItem(lnks, linkId, fields.v.sets, {}).table
             exist == AssertCategoriesExist(cats, fields.v.category_ids)
         IN  IF ~exist.ok THEN Outcome(cats, early, ErrorResponse(exist))
             ELSE LET statements == UpdateLinkStatements(body, fields.v, generated) IN
                  IF ~statements.ok THEN Outcome(cats, early, ErrorResponse(statements))
                  ELSE UpdateLinkWrite(cats, lnks, linkId, statements.v)

\* _update_link
UpdateLink(cats, lnks, linkId, body, generated) ==
    LET fields == UpdateLinkFields(body) IN
    IF ~fields.ok THEN Outcome(cats, lnks, ErrorResponse(fields))
    ELSE LET exist == AssertCategoriesExist(cats, fields.v.category_ids) IN
         IF ~exist.ok THEN Outcome(cats, lnks, ErrorResponse(exist))
         ELSE LET statements == UpdateLinkStatements(body, fields.v, generated) IN
              IF ~statements.ok THEN Outcome(cats, lnks, ErrorResponse(statements))
              ELSE UpdateLinkWrite(cats, lnks, linkId, statements.v)

\* _delete_link
DeleteLink(cats, lnks, linkId) ==
    LET del == DeleteItem(lnks, linkId) IN
    IF ~del.ok THEN Outcome(cats, lnks, ErrorResponse(HttpError(404, "Link not found")))
    ELSE Outcome(cats, del.table, Response(204, NoBody))

(***************************************************************************)
(* Sublinks: read the parent link, change its list, write the list back.   *)
(***************************************************************************)
\* _create_sublink before the read: the new entry; generatedId is what
\* _generate_sublink_id() returns
CreateSublinkEntry(body, generatedId) ==
    LET name == ValidateString(Get(body, "name"), "name", MaxNameLength)
        url == ValidateUrl(Get(body, "url"), "url")
        description == ValidateDescription(Get(body, "description"))
        rawId == Get(body, "id")
        sublinkId == IF rawId.t # "null" THEN ValidateString(rawId, "id", MaxIdLength)
                     ELSE Ok(generatedId)
    IN  IF ~name.ok THEN name
        ELSE IF ~url.ok THEN url
        ELSE IF ~description.ok THEN description
        ELSE IF ~sublinkId.ok THEN sublinkId
        ELSE Ok(WithDescription([id |-> sublinkId.v, name |-> name.v, url |-> url.v],
                                description.v))

\* an append without the check for the id
CreateSublinkListUnchecked(item, entry) == Ok(ExtractSublinks(item) \o <<entry>>)

\* _create_sublink between the read and the write: the list to write
CreateSublinkList(item, entry) ==
    LET current == ExtractSublinks(item) IN
    IF \E i \in 1..Len(current) : current[i].id = entry.id
    THEN HttpError(409, "Sublink already exists")
    ELSE Ok(current \o <<entry>>)

\* a write that keeps the stored entries the written list does not have
WriteSublinksMerging(cats, lnks, linkId, sublinks, status) ==
    LET current == IF linkId \in DOMAIN lnks THEN ExtractSublinks(lnks[linkId]) ELSE <<>>
        others(entry) == \A i \in 1..Len(sublinks) : sublinks[i].id # entry.id
        upd == UpdateItem(lnks, linkId, [sublinks |-> SelectSeq(current, others) \o sublinks], {})
    IN  IF ~upd.ok THEN Outcome(cats, lnks, ErrorResponse(HttpError(404, "Link not found")))
        ELSE Outcome(cats, upd.table, Response(status, [link |-> Serialize(upd.attributes)]))

\* a write without the condition: update_item creates the item it does not find
WriteSublinksUnconditional(cats, lnks, linkId, sublinks, status) ==
    IF linkId \in DOMAIN lnks
    THEN LET upd == UpdateItem(lnks, linkId, [sublinks |-> sublinks], {}) IN
         Outcome(cats, upd.table, Response(status, [link |-> Serialize(upd.attributes)]))
    ELSE Outcome(cats, Put(lnks, linkId, [link_id |-> linkId, sublinks |-> sublinks]),
                 Response(status, NoBody))

\* update_item(SET #s = :s, attribute_exists(link_id)) of the sublink
\* operations, and the response
WriteSublinks(cats, lnks, linkId, sublinks, status) ==
    LET upd == UpdateItem(lnks, linkId, [sublinks |-> sublinks], {}) IN
    IF ~upd.ok THEN Outcome(cats, lnks, ErrorResponse(HttpError(404, "Link not found")))
    ELSE Outcome(cats, upd.table, Response(status, [link |-> Serialize(upd.attributes)]))

\* _create_sublink
CreateSublink(cats, lnks, linkId, body, generatedId) ==
    LET entry == CreateSublinkEntry(body, generatedId) IN
    IF ~entry.ok THEN Outcome(cats, lnks, ErrorResponse(entry))
    ELSE LET item == FetchLinkItem(lnks, linkId) IN
         IF ~item.ok THEN Outcome(cats, lnks, ErrorResponse(item))
         ELSE LET updated == CreateSublinkList(item.v, entry.v) IN
              IF ~updated.ok THEN Outcome(cats, lnks, ErrorResponse(updated))
              ELSE WriteSublinks(cats, lnks, linkId, updated.v, 201)

\* field updates that accept every body
UpdateSublinkFieldsUnchecked(body) == Ok([updates |-> <<>>, removeDescription |-> FALSE])

\* _update_sublink before the read: the field updates
UpdateSublinkFields(body) ==
    IF DOMAIN body = {}
    THEN HttpError(400, "Request body must contain at least one field to update")
    ELSE
    LET name == IF "name" \in DOMAIN body
                THEN ValidateString(body["name"], "name", MaxNameLength) ELSE Ok(<<>>)
        url == IF "url" \in DOMAIN body THEN ValidateUrl(body["url"], "url") ELSE Ok(<<>>)
        description == IF "description" \in DOMAIN body
                       THEN ValidateDescription(body["description"]) ELSE Ok(<<>>)
    IN  IF ~name.ok THEN name
        ELSE IF ~url.ok THEN url
        ELSE IF ~description.ok THEN description
        ELSE
        LET updates == (IF "name" \in DOMAIN body THEN [name |-> name.v] ELSE <<>>)
                       @@ (IF "url" \in DOMAIN body THEN [url |-> url.v] ELSE <<>>)
                       @@ (IF "description" \in DOMAIN body /\ description.v # <<>>
                           THEN [description |-> description.v] ELSE <<>>)
            descriptionProvided == "description" \in DOMAIN body
        IN  IF DOMAIN updates = {} /\ ~descriptionProvided
            THEN HttpError(400, "No updatable fields provided")
            ELSE Ok([updates |-> updates,
                     removeDescription |-> descriptionProvided /\ description.v = <<>>])

\* a replacement that puts the updated entry last
UpdateSublinkListMoving(item, sublinkId, fields) ==
    LET current == ExtractSublinks(item)
        other(entry) == entry.id # sublinkId
        matches == {i \in 1..Len(current) : current[i].id = sublinkId}
    IN  IF matches = {} THEN HttpError(404, "Sublink not found")
        ELSE LET index == CHOOSE i \in matches : TRUE
                 updated == ApplyUpdate(current[index], fields.updates,
                                        IF fields.removeDescription THEN {"description"} ELSE {})
             IN  Ok(SelectSeq(current, other) \o <<updated>>)

\* _update_sublink between the read and the write: the first entry with the
\* id is replaced in place
UpdateSublinkList(item, sublinkId, fields) ==
    LET current == ExtractSublinks(item)
        matches == {i \in 1..Len(current) : current[i].id = sublinkId}
    IN  IF matches = {} THEN HttpError(404, "Sublink not found")
        ELSE LET index == CHOOSE i \in matches : \A j \in matches : i <= j
                 updated == ApplyUpdate(current[index], fields.updates,
                                        IF fields.removeDescription THEN {"description"} ELSE {})
             IN  Ok([current EXCEPT ![index] = updated])

\* _update_sublink
UpdateSublink(cats, lnks, linkId, sublinkId, body) ==
    LET fields == UpdateSublinkFields(body) IN
    IF ~fields.ok THEN Outcome(cats, lnks, ErrorResponse(fields))
    ELSE LET item == FetchLinkItem(lnks, linkId) IN
         IF ~item.ok THEN Outcome(cats, lnks, ErrorResponse(item))
         ELSE LET updated == UpdateSublinkList(item.v, sublinkId, fields.v) IN
              IF ~updated.ok THEN Outcome(cats, lnks, ErrorResponse(updated))
              ELSE WriteSublinks(cats, lnks, linkId, updated.v, 200)

\* _delete_sublink between the read and the write: the list without the entry
DeleteSublinkList(item, sublinkId) ==
    LET current == ExtractSublinks(item)
        keep(entry) == entry.id # sublinkId
        next == SelectSeq(current, keep)
    IN  IF Len(next) = Len(current) THEN HttpError(404, "Sublink not found") ELSE Ok(next)

\* a write that SETs the list even when it is empty
DeleteSublinkWriteAlwaysSet(cats, lnks, linkId, next) ==
    WriteSublinks(cats, lnks, linkId, next, 200)

\* the update_item call of _delete_sublink: SET the list, or REMOVE the
\* attribute when the list is empty
DeleteSublinkWrite(cats, lnks, linkId, next) ==
    IF next # <<>> THEN WriteSublinks(cats, lnks, linkId, next, 200)
    ELSE LET upd == UpdateItem(lnks, linkId, <<>>, {"sublinks"}) IN
         IF ~upd.ok THEN Outcome(cats, lnks, ErrorResponse(HttpError(404, "Link not found")))
         ELSE Outcome(cats, upd.table, Response(200, [link |-> Serialize(upd.attributes)]))

\* _delete_sublink
DeleteSublink(cats, lnks, linkId, sublinkId) ==
    LET item == FetchLinkItem(lnks, linkId) IN
    IF ~item.ok THEN Outcome(cats, lnks, ErrorResponse(item))
    ELSE LET next == DeleteSublinkList(item.v, sublinkId) IN
         IF ~next.ok THEN Outcome(cats, lnks, ErrorResponse(next))
         ELSE DeleteSublinkWrite(cats, lnks, linkId, next.v)

(***************************************************************************)
(* The state machine, one request at a time: a request arrives (Receive),  *)
(* the handler runs to its response (one action per operation).            *)
(***************************************************************************)
NoId == <<>>

\* a request: its route, its raw body, and what the environment contributes
\* to its handling: the id the generator returns (newId), the ids
\* _generate_sublink_id() returns (generated), the page limit of its scans
Request(op, id, sid, raw, newId, generated, limit) ==
    [op |-> op, id |-> id, sid |-> sid, raw |-> raw,
     newId |-> newId, generated |-> generated, limit |-> limit]

NoRawBody == [t |-> "empty", v |-> <<>>]

NoRequest == Request("none", NoId, NoId, NoRawBody, NoId, <<>>, 1)

NoResponse == [op |-> "none", id |-> NoId, sid |-> NoId, statusCode |-> 0, body |-> NoBody]

Init ==
    /\ categories = <<>>
    /\ links = <<>>
    /\ req = NoRequest
    /\ resp = NoResponse
    /\ nreq = 0
    /\ refused = {}
    /\ lastWrite = 0
    /\ procs = <<>>

\* handler is invoked with request r
Receive(r) ==
    /\ req = NoRequest
    /\ nreq < MaxRequests
    /\ req' = r
    /\ UNCHANGED <<categories, links, resp, nreq, refused, lastWrite, procs>>

\* the request is served: the tables change as the handler changed them and
\* the response is returned
Serve(outcome) ==
    /\ nreq' = nreq + 1
    /\ categories' = outcome.categories
    /\ links' = outcome.links
    /\ resp' = [op |-> req.op, id |-> req.id, sid |-> req.sid,
                statusCode |-> outcome.response.statusCode,
                body |-> outcome.response.body]
    /\ refused' = IF req.op = "delete_category" /\ outcome.response.statusCode = 409
                  THEN refused \cup {req.id} ELSE refused
    /\ req' = NoRequest
    /\ UNCHANGED <<lastWrite, procs>>

\* body = _parse_json_body(event) raised: the tables are as they were
Rejected(body) == Outcome(categories, links, ErrorResponse(body))

\* POST /categories
PostCategory ==
    /\ req.op = "create_category"
    /\ LET body == ParseJsonBody(req.raw) IN
       Serve(IF body.ok THEN CreateCategory(categories, links, body.v, req.newId)
             ELSE Rejected(body))

\* GET /categories/{id}
GetCategoryById ==
    /\ req.op = "get_category"
    /\ Serve(GetCategory(categories, links, req.id))

\* PUT /categories/{id}
PutCategory ==
    /\ req.op = "update_category"
    /\ LET body == ParseJsonBody(req.raw) IN
       Serve(IF body.ok THEN UpdateCategory(categories, links, req.id, body.v)
             ELSE Rejected(body))

\* DELETE /categories/{id}
DeleteCategoryById ==
    /\ req.op = "delete_category"
    /\ Serve(DeleteCategory(categories, links, req.id, req.limit))

\* GET /categories
GetCategories ==
    /\ req.op = "list_categories"
    /\ Serve(ListCategories(categories, links, req.limit))

\* POST /links
PostLink ==
    /\ req.op = "create_link"
    /\ LET body == ParseJsonBody(req.raw) IN
       Serve(IF body.ok THEN CreateLink(categories, links, body.v, req.newId, req.generated)
             ELSE Rejected(body))

\* GET /links/{id}
GetLinkById ==
    /\ req.op = "get_link"
    /\ Serve(GetLink(categories, links, req.id))

\* PUT /links/{id}
PutLink ==
    /\ req.op = "update_link"
    /\ LET body == ParseJsonBody(req.raw) IN
       Serve(IF body.ok THEN UpdateLink(categories, links, req.id, body.v, req.generated)
             ELSE Rejected(body))

\* DELETE /links/{id}
DeleteLinkById ==
    /\ req.op = "delete_link"
    /\ Serve(DeleteLink(categories, links, req.id))

\* GET /links
GetLinks ==
    /\ req.op = "list_links"
    /\ Serve(ListLinks(categories, links, req.limit))

\* POST /links/{id}/sublinks
PostSublink ==
    /\ req.op = "create_sublink"
    /\ LET body == ParseJsonBody(req.raw) IN
       Serve(IF body.ok THEN CreateSublink(categories, links, req.id, body.v, req.newId)
             ELSE Rejected(body))

\* PUT /links/{id}/sublinks/{sid}
PutSublink ==
    /\ req.op = "update_sublink"
    /\ LET body == ParseJsonBody(req.raw) IN
       Serve(IF body.ok THEN UpdateSublink(categories, links, req.id, req.sid, body.v)
             ELSE Rejected(body))

\* DELETE /links/{id}/sublinks/{sid}
DeleteSublinkById ==
    /\ req.op = "delete_sublink"
    /\ Serve(DeleteSublink(categories, links, req.id, req.sid))

\* the handler runs the pending request to its response
Handle ==
    \/ PostCategory \/ GetCategoryById \/ PutCategory \/ DeleteCategoryById \/ GetCategories
    \/ PostLink \/ GetLinkById \/ PutLink \/ DeleteLinkById \/ GetLinks
    \/ PostSublink \/ PutSublink \/ DeleteSublinkById

(***************************************************************************)
(* Requests: the inputs the model draws.                                   *)
(***************************************************************************)
NameA == <<"a">>
NameB == <<"b">>
Blank == <<" ">>
UrlHttp == HttpPrefix \o <<"x">>
UrlTel == <<"t", "e", "l", ":", "+", "1", " ", "2">>
DescD == <<"d">>
\* an id no generator returns: it never names a stored record
MissingCategoryId == <<"c", "a", "t", "-", "x">>

\* all bodies over `fields`, each field absent or one of its values
Bodies(fields, values) ==
    UNION { {f \in [S -> UNION {values[k] : k \in S}] : \A k \in S : f[k] \in values[k]}
            : S \in SUBSET fields }

Objects(bodies) == {JObj(o) : o \in bodies}

\* request bodies as the transport hands them over: none, not JSON, a JSON
\* value that is no object, or an object
RawBodies(bodies) ==
    {NoRawBody, [t |-> "invalid", v |-> <<>>], JList(<<>>)} \cup Objects(bodies)

\* the ids _generate_sublink_id() may return for the entries of a body's
\* "sublinks" list (it is called for the entries without "id" only)
GeneratedFor(raw) ==
    LET list == IF raw.t = "obj" /\ "sublinks" \in DOMAIN raw.v /\ raw.v["sublinks"].t = "list"
                THEN raw.v["sublinks"].v ELSE <<>>
        drawn == {i \in 1..Len(list) : list[i].t = "obj" /\ "id" \notin DOMAIN list[i].v}
    IN  {g \in [1..Len(list) -> GenerateSublinkId] :
            \A i \in 1..Len(list) : i \notin drawn => g[i] = SublinkId(1)}

\* the ids _generate_sublink_id() may return for a create-sublink body
GeneratedIdFor(raw) ==
    IF raw.t = "obj" /\ "id" \notin DOMAIN raw.v THEN GenerateSublinkId ELSE {SublinkId(1)}

PageLimits == 1..MaxPageLimit

CategoryRequests(createBodies, updateBodies) ==
    {Request("create_category", NoId, NoId, raw, c, <<>>, 1) :
        raw \in createBodies, c \in GenerateCategoryId}
    \cup {Request("get_category", c, NoId, NoRawBody, NoId, <<>>, 1) : c \in GenerateCategoryId}
    \cup {Request("update_category", c, NoId, raw, NoId, <<>>, 1) :
        c \in GenerateCategoryId, raw \in updateBodies}
    \cup {Request("delete_category", c, NoId, NoRawBody, NoId, <<>>, limit) :
        c \in GenerateCategoryId, limit \in PageLimits}
    \cup {Request("list_categories", NoId, NoId, NoRawBody, NoId, <<>>, limit) :
        limit \in PageLimits}

LinkRequests(createBodies, updateBodies) ==
    UNION {{Request("create_link", NoId, NoId, raw, l, g, 1) : g \in GeneratedFor(raw)} :
        raw \in createBodies, l \in GenerateLinkId}
    \cup {Request("get_link", l, NoId, NoRawBody, NoId, <<>>, 1) : l \in GenerateLinkId}
    \cup UNION {{Request("update_link", l, NoId, raw, NoId, g, 1) : g \in GeneratedFor(raw)} :
        raw \in updateBodies, l \in GenerateLinkId}
    \cup {Request("delete_link", l, NoId, NoRawBody, NoId, <<>>, 1) : l \in GenerateLinkId}
    \cup {Request("list_links", NoId, NoId, NoRawBody, NoId, <<>>, limit) : limit \in PageLimits}

SublinkRequests(createBodies, updateBodies) ==
    UNION {{Request("create_sublink", l, NoId, raw, g, <<>>, 1) : g \in GeneratedIdFor(raw)} :
        raw \in createBodies, l \in GenerateLinkId}
    \cup {Request("update_sublink", l, sl, raw, NoId, <<>>, 1) :
        l \in GenerateLinkId, sl \in GenerateSublinkId, raw \in updateBodies}
    \cup {Request("delete_sublink", l, sl, NoRawBody, NoId, <<>>, 1) :
        l \in GenerateLinkId, sl \in GenerateSublinkId}

(***************************************************************************)
(* Spec: every request of the API from empty tables, one at a time, with   *)
(* bodies that vary the category references.                               *)
(***************************************************************************)
\* sublink entries of a request body: with a caller-chosen id, with another
\* and a description, and without id
EntryOne == JObj([id |-> JStr(SublinkId(1)), name |-> JStr(NameA), url |-> JStr(UrlHttp)])
EntryTwo == JObj([id |-> JStr(SublinkId(2)), name |-> JStr(NameB), url |-> JStr(UrlHttp),
                  description |-> JStr(DescD)])
EntryNoId == JObj([name |-> JStr(NameA), url |-> JStr(UrlHttp)])

\* category id lists of a request body: existing or not, padded, repeated
CategoryIdLists ==
    LET one == CategoryId(1)
        two == CategoryId(2)
        padded == <<" ">> \o CategoryId(1)
    IN  {JList(<<JStr(one)>>), JList(<<JStr(two)>>), JList(<<JStr(MissingCategoryId)>>),
         JList(<<JStr(padded)>>), JList(<<JStr(one), JStr(two)>>),
         JList(<<JStr(two), JStr(one)>>), JList(<<JStr(one), JStr(one)>>),
         JList(<<JStr(one), JStr(MissingCategoryId)>>),
         JList(<<JStr(padded), JStr(two), JStr(one)>>),
         JList(<<>>), JStr(two)}

LegacyCategoryIds == {JStr(CategoryId(2)), JStr(MissingCategoryId)}

CreateLinkBodies ==
    LET base == [name |-> JStr(NameA), url |-> JStr(UrlHttp)]
        one == JList(<<JStr(CategoryId(1))>>)
    IN  {base @@ c : c \in Bodies({"categoryIds", "categoryId"},
                                  [categoryIds |-> CategoryIdLists,
                                   categoryId |-> LegacyCategoryIds])}
        \cup {[url |-> JStr(UrlHttp), categoryIds |-> one],
              [name |-> JStr(NameA), url |-> JStr(<<"x">>), categoryIds |-> one],
              base @@ [categoryIds |-> one, description |-> JStr(DescD)],
              base @@ [categoryIds |-> one, sublinks |-> JList(<<EntryOne>>)],
              base @@ [categoryIds |-> one, sublinks |-> JList(<<EntryNoId>>)]}

UpdateLinkBodies ==
    Bodies({"categoryIds", "categoryId"},
           [categoryIds |-> {JList(<<JStr(CategoryId(1))>>), JList(<<JStr(CategoryId(2))>>),
                             JList(<<JStr(CategoryId(2)), JStr(CategoryId(1))>>),
                             JList(<<JStr(MissingCategoryId)>>),
                             JList(<<JStr(CategoryId(1)), JStr(MissingCategoryId)>>)},
            categoryId |-> {JStr(CategoryId(1)), JStr(MissingCategoryId)}])
    \cup {[name |-> JStr(NameB)], [url |-> JStr(UrlTel)], [description |-> JNull],
          [description |-> JStr(DescD)], [sublinks |-> JNull],
          [sublinks |-> JList(<<EntryOne>>)], [sublinks |-> JList(<<>>)]}

CreateSublinkBodies ==
    {[name |-> JStr(NameA), url |-> JStr(UrlHttp)],
     [id |-> JStr(SublinkId(1)), name |-> JStr(NameA), url |-> JStr(UrlHttp)],
     [id |-> JStr(SublinkId(1))]}

UpdateSublinkBodies == {[name |-> JStr(NameB)], [description |-> JNull], <<>>}

SpecRequests ==
    CategoryRequests(Objects(Bodies({"name", "description"},
                                    [name |-> {JStr(NameA)}, description |-> {JStr(DescD)}])),
                     Objects(Bodies({"name", "description"},
                                    [name |-> {JStr(<<" ">> \o NameB)}, description |-> {JNull}])))
    \cup LinkRequests(Objects(CreateLinkBodies), Objects(UpdateLinkBodies))
    \cup SublinkRequests(Objects(CreateSublinkBodies), Objects(UpdateSublinkBodies))

Next ==
    \/ \E r \in SpecRequests : Receive(r)
    \/ Handle

Spec == Init /\ [][Next]_vars

(***************************************************************************)
(* SpecStored: the requests that change or remove what is stored, from     *)
(* tables that hold two categories, a link with a description and one      *)
(* sublink, and possibly a link written before category_ids existed.       *)
(***************************************************************************)
DescE == <<"e">>

StoredCategories ==
    Put(Put(<<>>, CategoryId(1),
            [category_id |-> CategoryId(1), name |-> NameA, description |-> DescD]),
        CategoryId(2), [category_id |-> CategoryId(2), name |-> NameB])

\* the links table after POST /links for a link in the first category, with
\* a description and one sublink that has a description
StoredLink ==
    Put(<<>>, LinkId(1),
        [link_id |-> LinkId(1), name |-> NameA, url |-> UrlHttp, description |-> DescD,
         category_ids |-> <<CategoryId(1)>>, category_id |-> CategoryId(1),
         sublinks |-> <<[id |-> SublinkId(2), name |-> NameB, url |-> UrlHttp,
                         description |-> DescD]>>])

\* the links table after POST /links for a link in the first category
PlainLink ==
    Put(<<>>, LinkId(1),
        [link_id |-> LinkId(1), name |-> NameA, url |-> UrlHttp,
         category_ids |-> <<CategoryId(1)>>, category_id |-> CategoryId(1)])

\* a record of the links table from before category_ids: it names its
\* category in category_id only (_serialize and _category_has_links read it)
LegacyLink ==
    [link_id |-> LinkId(2), name |-> NameB, url |-> UrlHttp, category_id |-> CategoryId(2)]

StoredLinkTables == {StoredLink, Put(StoredLink, LinkId(2), LegacyLink)}

\* the stored tables are what the handlers write: POST /categories twice,
\* then POST /links with a description and one sublink, or without
SeedsAsWritten ==
    /\ StoredCategories =
         CreateCategory(CreateCategory(<<>>, <<>>,
                                       [name |-> JStr(NameA), description |-> JStr(DescD)],
                                       CategoryId(1)).categories,
                        <<>>, [name |-> JStr(NameB)], CategoryId(2)).categories
    /\ StoredLink =
         CreateLink(StoredCategories, <<>>,
                    [name |-> JStr(NameA), url |-> JStr(UrlHttp),
                     categoryIds |-> JList(<<JStr(CategoryId(1))>>), description |-> JStr(DescD),
                     sublinks |-> JList(<<EntryTwo>>)],
                    LinkId(1), <<SublinkId(2)>>).links
    /\ PlainLink =
         CreateLink(StoredCategories, <<>>,
                    [name |-> JStr(NameA), url |-> JStr(UrlHttp),
                     categoryIds |-> JList(<<JStr(CategoryId(1))>>)],
                    LinkId(1), <<>>).links

InitStored ==
    /\ categories = StoredCategories
    /\ links \in StoredLinkTables
    /\ req = NoRequest
    /\ resp = NoResponse
    /\ nreq = 0
    /\ refused = {}
    /\ lastWrite = 0
    /\ procs = <<>>

\* a field no handler reads
Unrecognized == [color |-> JStr(NameA)]

StoredCategoryUpdates ==
    {NoRawBody} \cup Objects({<<>>, Unrecognized, [description |-> JNull], [name |-> JStr(NameB)],
                              [name |-> JStr(NameB), description |-> JNull],
                              [description |-> JStr(DescE)]})

StoredLinkUpdates ==
    {NoRawBody} \cup Objects({<<>>, Unrecognized, [description |-> JNull], [name |-> JStr(NameB)],
                              [name |-> JStr(NameB), description |-> JNull],
                              [description |-> JStr(DescE)],
                              [categoryIds |-> JList(<<JStr(CategoryId(1))>>)],
                              [sublinks |-> JNull]})

StoredSublinkUpdates ==
    {NoRawBody} \cup Objects({<<>>, Unrecognized, [name |-> JStr(NameB)],
                              [description |-> JNull]})

StoredRequests ==
    CategoryRequests(Objects({[name |-> JStr(NameA)]}), StoredCategoryUpdates)
    \cup LinkRequests(Objects({[name |-> JStr(NameA), url |-> JStr(UrlHttp),
                                categoryId |-> JStr(CategoryId(2))]}),
                      StoredLinkUpdates)
    \cup SublinkRequests(Objects({[id |-> JStr(SublinkId(1)), name |-> JStr(NameA),
                                   url |-> JStr(UrlTel)]}),
                         StoredSublinkUpdates)

NextStored ==
    \/ \E r \in StoredRequests : Receive(r)
    \/ Handle

SpecStored == InitStored /\ [][NextStored]_vars

(***************************************************************************)
(* SpecConcurrent: invocations of the handler that overlap.  Each process  *)
(* serves one request; a step is one call of the storage layer together    *)
(* with the local computation that leads to it.                            *)
(***************************************************************************)
NumProcs == 2

Procs == 1..NumProcs

Idle == [pc |-> "idle", req |-> NoRequest, local |-> <<>>, status |-> 0, message |-> ""]

\* the process has its response: its status and, for an error, its message
Done(proc, response) ==
    [proc EXCEPT !.pc = "done", !.status = response.statusCode,
                 !.message = IF "message" \in DOMAIN response.body
                             THEN response.body.message ELSE ""]

At(proc, pc, local) == [proc EXCEPT !.pc = pc, !.local = local @@ proc.local]

\* where a request stands when its first storage call is due: the body is
\* parsed and the fields validated
Started(r) ==
    LET proc == [Idle EXCEPT !.req = r]
        body == ParseJsonBody(r.raw)
    IN  IF r.op = "delete_category" THEN At(proc, "links_scan", [cursor |-> 0])
        ELSE IF r.op = "delete_sublink" THEN At(proc, "link_get", <<>>)
        ELSE IF ~body.ok THEN Done(proc, ErrorResponse(body))
        ELSE IF r.op = "create_link"
        THEN LET fields == CreateLinkFields(body.v) IN
             IF ~fields.ok THEN Done(proc, ErrorResponse(fields))
             ELSE At(proc, "category_get", [fields |-> fields.v, index |-> 1])
        ELSE IF r.op = "update_link"
        THEN LET fields == UpdateLinkFields(body.v) IN
             IF ~fields.ok THEN Done(proc, ErrorResponse(fields))
             ELSE At(proc, IF fields.v.category_ids = <<>> THEN "link_update" ELSE "category_get",
                     [fields |-> fields.v, index |-> 1])
        ELSE IF r.op = "create_sublink"
        THEN LET entry == CreateSublinkEntry(body.v, r.newId) IN
             IF ~entry.ok THEN Done(proc, ErrorResponse(entry))
             ELSE At(proc, "link_get", [entry |-> entry.v])
        ELSE LET fields == UpdateSublinkFields(body.v) IN
             IF ~fields.ok THEN Done(proc, ErrorResponse(fields))
             ELSE At(proc, "link_get", [fields |-> fields.v])

\* handler is invoked with request r in process p
Begin(p, r) ==
    /\ procs[p].pc = "idle"
    /\ procs' = [procs EXCEPT ![p] = Started(r)]
    /\ UNCHANGED <<categories, links, req, resp, nreq, refused, lastWrite>>

\* _assert_category_exists: the get_item for the next category id of a
\* create-link or update-link
CategoryGet(p) ==
    LET proc == procs[p]
        ids == proc.local.fields.category_ids
        exist == AssertCategoryExists(categories, ids[proc.local.index])
    IN  /\ proc.pc = "category_get"
        /\ procs' = [procs EXCEPT ![p] =
                IF ~exist.ok THEN Done(proc, ErrorResponse(exist))
                ELSE IF proc.local.index < Len(ids)
                THEN [proc EXCEPT !.local.index = @ + 1]
                ELSE [proc EXCEPT !.pc = IF proc.req.op = "create_link"
                                         THEN "link_put" ELSE "link_update"]]
        /\ UNCHANGED <<categories, links, req, resp, nreq, refused, lastWrite>>

\* the put_item of _create_link
LinkPut(p) ==
    LET proc == procs[p]
        r == proc.req
        item == CreateLinkItem(r.raw.v, proc.local.fields, r.newId, r.generated)
        outcome == IF ~item.ok THEN Outcome(categories, links, ErrorResponse(item))
                   ELSE CreateLinkPut(categories, links, item.v)
    IN  /\ proc.pc = "link_put"
        /\ links' = outcome.links
        /\ procs' = [procs EXCEPT ![p] = Done(proc, outcome.response)]
        /\ UNCHANGED <<categories, req, resp, nreq, refused, lastWrite>>

\* the update_item of _update_link
LinkUpdate(p) ==
    LET proc == procs[p]
        r == proc.req
        statements == UpdateLinkStatements(r.raw.v, proc.local.fields, r.generated)
        outcome == IF ~statements.ok THEN Outcome(categories, links, ErrorResponse(statements))
                   ELSE UpdateLinkWrite(categories, links, r.id, statements.v)
    IN  /\ proc.pc = "link_update"
        /\ links' = outcome.links
        /\ procs' = [procs EXCEPT ![p] = Done(proc, outcome.response)]
        /\ UNCHANGED <<categories, req, resp, nreq, refused, lastWrite>>

\* one scan call of _category_has_links in _delete_category
LinksScan(p) ==
    LET proc == procs[p]
        r == proc.req
        result == CategoryHasLinksPage(links, r.id, proc.local.cursor, r.limit)
    IN  /\ proc.pc = "links_scan"
        /\ procs' = [procs EXCEPT ![p] =
                IF result.Items # <<>>
                THEN Done(proc, ErrorResponse(
                         HttpError(409, "Category cannot be deleted while links reference it")))
                ELSE IF result.LastEvaluatedKey = 0
                THEN [proc EXCEPT !.pc = "category_delete"]
                ELSE [proc EXCEPT !.local.cursor = result.LastEvaluatedKey]]
        /\ UNCHANGED <<categories, links, req, resp, nreq, refused, lastWrite>>

\* the delete_item of _delete_category
CategoryDelete(p) ==
    LET proc == procs[p]
        outcome == DeleteCategoryItem(categories, links, proc.req.id)
    IN  /\ proc.pc = "category_delete"
        /\ categories' = outcome.categories
        /\ procs' = [procs EXCEPT ![p] = Done(proc, outcome.response)]
        /\ UNCHANGED <<links, req, resp, nreq, refused, lastWrite>>

\* _fetch_link_item of a sublink operation, and the list the operation
\* computes from the item it read
LinkGet(p) ==
    LET proc == procs[p]
        r == proc.req
        item == FetchLinkItem(links, r.id)
        next == IF r.op = "create_sublink" THEN CreateSublinkList(item.v, proc.local.entry)
                ELSE IF r.op = "update_sublink"
                THEN UpdateSublinkList(item.v, r.sid, proc.local.fields)
                ELSE DeleteSublinkList(item.v, r.sid)
    IN  /\ proc.pc = "link_get"
        /\ procs' = [procs EXCEPT ![p] =
                IF ~item.ok THEN Done(proc, ErrorResponse(item))
                ELSE IF ~next.ok THEN Done(proc, ErrorResponse(next))
                ELSE At(proc, "sublinks_write",
                        [read |-> ExtractSublinks(item.v), next |-> next.v])]
        /\ UNCHANGED <<categories, links, req, resp, nreq, refused, lastWrite>>

\* the update_item of a sublink operation
SublinksWrite(p) ==
    LET proc == procs[p]
        r == proc.req
        outcome == IF r.op = "create_sublink"
                   THEN WriteSublinks(categories, links, r.id, proc.local.next, 201)
                   ELSE IF r.op = "update_sublink"
                   THEN WriteSublinks(categories, links, r.id, proc.local.next, 200)
                   ELSE DeleteSublinkWrite(categories, links, r.id, proc.local.next)
    IN  /\ proc.pc = "sublinks_write"
        /\ links' = outcome.links
        /\ procs' = [procs EXCEPT ![p] = Done(proc, outcome.response)]
        /\ lastWrite' = IF outcome.response.statusCode \in {200, 201} THEN p ELSE lastWrite
        /\ UNCHANGED <<categories, req, resp, nreq, refused>>

InitConcurrent ==
    /\ categories = StoredCategories
    /\ links \in {PlainLink, StoredLink}
    /\ req = NoRequest
    /\ resp = NoResponse
    /\ nreq = 0
    /\ refused = {}
    /\ lastWrite = 0
    /\ procs = [p \in Procs |-> Idle]

ConcurrentRequests ==
    {Request("delete_category", c, NoId, NoRawBody, NoId, <<>>, limit) :
        c \in GenerateCategoryId, limit \in PageLimits}
    \cup {Request("create_link", NoId, NoId, JObj(body), LinkId(2), <<>>, 1) :
            body \in {[name |-> JStr(NameA), url |-> JStr(UrlHttp), categoryIds |-> ids] :
                        ids \in {JList(<<JStr(CategoryId(2))>>),
                                 JList(<<JStr(CategoryId(1)), JStr(CategoryId(2))>>)}}}
    \cup {Request("update_link", LinkId(1), NoId, JObj(body), NoId, <<>>, 1) :
            body \in {[categoryIds |-> JList(<<JStr(CategoryId(2))>>)], <<>>}}
    \cup {Request("create_sublink", LinkId(1), NoId,
                  JObj([id |-> JStr(SublinkId(1)), name |-> JStr(NameA), url |-> JStr(UrlHttp)]),
                  SublinkId(1), <<>>, 1)}
    \cup {Request("create_sublink", LinkId(1), NoId,
                  JObj([name |-> JStr(NameB), url |-> JStr(UrlHttp)]), g, <<>>, 1) :
            g \in GenerateSublinkId}
    \cup {Request("update_sublink", LinkId(1), sl, JObj([name |-> JStr(NameB)]), NoId, <<>>, 1) :
            sl \in GenerateSublinkId}
    \cup {Request("delete_sublink", LinkId(1), sl, NoRawBody, NoId, <<>>, 1) :
            sl \in GenerateSublinkId}

NextConcurrent ==
    \E p \in Procs :
        \/ \E r \in ConcurrentRequests : Begin(p, r)
        \/ CategoryGet(p)
        \/ LinkPut(p)
        \/ LinkUpdate(p)
        \/ LinksScan(p)
        \/ CategoryDelete(p)
        \/ LinkGet(p)
        \/ SublinksWrite(p)

SpecConcurrent == InitConcurrent /\ [][NextConcurrent]_vars

(***************************************************************************)
(* SpecInvocations: overlapping invocations of every operation, in which   *)
(* any call of the storage layer may fail.                                 *)
(***************************************************************************)
\* where a request of any operation stands when its first storage call is
\* due.  _create_category and _update_category validate every field before
\* their only storage call: the validation is run against empty tables, where
\* it alone can give 400 (or the 500 of an update without values)
StartedAny(r) ==
    LET proc == [Idle EXCEPT !.req = r]
        body == ParseJsonBody(r.raw)
        dry == IF r.op = "create_category"
               THEN CreateCategory(<<>>, <<>>, body.v, r.newId)
               ELSE UpdateCategory(<<>>, <<>>, r.id, body.v)
    IN  IF r.op \in {"get_category", "get_link", "delete_link"}
        THEN At(proc, "single_call", <<>>)
        ELSE IF r.op \in {"list_links", "list_categories"}
        THEN At(proc, "page_scan", [cursor |-> 0, items |-> <<>>])
        ELSE IF r.op \in {"create_category", "update_category"}
        THEN IF ~body.ok THEN Done(proc, ErrorResponse(body))
             ELSE IF dry.response.statusCode \in {400, 500} THEN Done(proc, dry.response)
             ELSE At(proc, "single_call", [body |-> body.v])
        ELSE Started(r)

\* handler is invoked with request r in process p
BeginAny(p, r) ==
    /\ procs[p].pc = "idle"
    /\ procs' = [procs EXCEPT ![p] = StartedAny(r)]
    /\ UNCHANGED <<categories, links, req, resp, nreq, refused, lastWrite>>

\* the storage call of an operation that makes one: put_item of
\* _create_category, get_item of _get_category and _get_link, update_item of
\* _update_category, delete_item of _delete_link
SingleCall(p) ==
    LET proc == procs[p]
        r == proc.req
        outcome == IF r.op = "create_category"
                   THEN CreateCategory(categories, links, proc.local.body, r.newId)
                   ELSE IF r.op = "update_category"
                   THEN UpdateCategory(categories, links, r.id, proc.local.body)
                   ELSE IF r.op = "get_category" THEN GetCategory(categories, links, r.id)
                   ELSE IF r.op = "get_link" THEN GetLink(categories, links, r.id)
                   ELSE DeleteLink(categories, links, r.id)
    IN  /\ proc.pc = "single_call"
        /\ categories' = outcome.categories
        /\ links' = outcome.links
        /\ procs' = [procs EXCEPT ![p] = Done(proc, outcome.response)]
        /\ UNCHANGED <<req, resp, nreq, refused, lastWrite>>

\* one scan call of _list_links or _list_categories
PageScan(p) ==
    LET proc == procs[p]
        r == proc.req
        result == IF r.op = "list_links"
                  THEN Scan(links, LinkIdOrder, proc.local.cursor, r.limit)
                  ELSE Scan(categories, CategoryIdOrder, proc.local.cursor, r.limit)
        items == proc.local.items \o result.Items
    IN  /\ proc.pc = "page_scan"
        /\ procs' = [procs EXCEPT ![p] =
                IF result.LastEvaluatedKey = 0
                THEN Done([proc EXCEPT !.local.items = items], Response(200, NoBody))
                ELSE [proc EXCEPT !.local.cursor = result.LastEvaluatedKey,
                                  !.local.items = items]]
        /\ UNCHANGED <<categories, links, req, resp, nreq, refused, lastWrite>>

\* the storage call that is due raises a ClientError other than a failed
\* condition, or another exception: the operation re-raises it and
\* with_error_handling answers
StorageFault(p) ==
    /\ procs[p].pc \notin {"idle", "done"}
    /\ procs' = [procs EXCEPT ![p] = Done(procs[p], ErrorResponse(Fault))]
    /\ UNCHANGED <<categories, links, req, resp, nreq, refused, lastWrite>>

\* the storage call that is due in process p returns
Step(p) ==
    \/ CategoryGet(p)
    \/ LinkPut(p)
    \/ LinkUpdate(p)
    \/ LinksScan(p)
    \/ CategoryDelete(p)
    \/ LinkGet(p)
    \/ SublinksWrite(p)
    \/ SingleCall(p)
    \/ PageScan(p)

\* the first category alone
OneCategory == Put(<<>>, CategoryId(1), StoredCategories[CategoryId(1)])

InitInvocations ==
    /\ categories \in {StoredCategories, OneCategory}
    /\ links \in {PlainLink, StoredLink}
    /\ req = NoRequest
    /\ resp = NoResponse
    /\ nreq = 0
    /\ refused = {}
    /\ lastWrite = 0
    /\ procs = [p \in Procs |-> Idle]

InvocationRequests ==
    ConcurrentRequests
    \cup {Request("create_category", NoId, NoId, raw, CategoryId(2), <<>>, 1) :
            raw \in {JObj([name |-> JStr(NameA)]), JObj(<<>>)}}
    \cup {Request("update_category", CategoryId(2), NoId, raw, NoId, <<>>, 1) :
            raw \in {JObj([name |-> JStr(NameA)]), JObj([description |-> JNull])}}
    \cup {Request("get_category", CategoryId(2), NoId, NoRawBody, NoId, <<>>, 1)}
    \cup {Request("list_categories", NoId, NoId, NoRawBody, NoId, <<>>, 1)}
    \cup {Request("get_link", LinkId(2), NoId, NoRawBody, NoId, <<>>, 1)}
    \cup {Request("delete_link", l, NoId, NoRawBody, NoId, <<>>, 1) : l \in GenerateLinkId}
    \cup {Request("list_links", NoId, NoId, NoRawBody, NoId, <<>>, 1)}
    \cup UNION {{Request("create_link", NoId, NoId, raw, LinkId(2), g, 1) : g \in GeneratedFor(raw)} :
            raw \in {JObj([name |-> JStr(NameA), url |-> JStr(UrlHttp),
                           categoryId |-> JStr(CategoryId(1)), sublinks |-> JList(list)]) :
                        list \in {<<EntryOne, EntryTwo>>, <<EntryOne, EntryNoId>>}}}
    \cup UNION {{Request("update_link", LinkId(1), NoId, raw, NoId, g, 1) : g \in GeneratedFor(raw)} :
            raw \in {JObj([sublinks |-> JList(list)]) :
                        list \in {<<EntryOne>>, <<EntryNoId, EntryTwo>>, <<EntryTwo, EntryOne>>}}}

NextInvocations ==
    \E p \in Procs :
        \/ \E r \in InvocationRequests : BeginAny(p, r)
        \/ Step(p)
        \/ StorageFault(p)

SpecInvocations == InitInvocations /\ [][NextInvocations]_vars

(***************************************************************************)
(* SpecCreates: overlapping creates and deletes of one link id and one     *)
(* category id.                                                            *)
(***************************************************************************)
NumCreators == 3

Creators == 1..NumCreators

InitCreates ==
    /\ categories = OneCategory
    /\ links = PlainLink
    /\ req = NoRequest
    /\ resp = NoResponse
    /\ nreq = 0
    /\ refused = {}
    /\ lastWrite = 0
    /\ procs = [p \in Creators |-> Idle]

\* creates whose generator returns a free id (the second of each kind) or
\* the id of a stored record (the first), and deletes of the second
CreateRequests ==
    {Request("create_link", NoId, NoId,
             JObj([name |-> JStr(NameB), url |-> JStr(UrlHttp),
                   categoryIds |-> JList(<<JStr(CategoryId(1))>>)]), l, <<>>, 1) :
        l \in {LinkId(1), LinkId(2)}}
    \cup {Request("create_category", NoId, NoId, JObj([name |-> JStr(NameB)]), c, <<>>, 1) :
            c \in {CategoryId(1), CategoryId(2)}}
    \cup {Request("delete_link", LinkId(2), NoId, NoRawBody, NoId, <<>>, 1),
          Request("delete_category", CategoryId(2), NoId, NoRawBody, NoId, <<>>, 1)}

NextCreates ==
    \E p \in Creators :
        \/ \E r \in CreateRequests : BeginAny(p, r)
        \/ CategoryGet(p)
        \/ LinkPut(p)
        \/ LinksScan(p)
        \/ CategoryDelete(p)
        \/ SingleCall(p)

SpecCreates == InitCreates /\ [][NextCreates]_vars

(***************************************************************************)
(* SpecUrl: _validate_url applied to one value.  req holds the call, resp  *)
(* what it returned or raised.                                             *)
(***************************************************************************)
MaxTailLen == 3

UrlAlphabet == {"+", "4", " ", "-", "x"}

UrlTails == UNION {[1..n -> UrlAlphabet] : n \in 0..MaxTailLen}

UrlPrefixes ==
    {<<>>, TelPrefix, <<"T", "E", "L", ":">>, <<"T", "e", "l", ":">>,
     HttpPrefix, HttpsPrefix, <<"H", "T", "T", "P", ":", "/", "/">>,
     <<"H", "t", "t", "p", "s", ":", "/", "/">>, <<"h", "t", "t", "p", ":", "/">>,
     <<"f", "t", "p", ":", "/", "/">>}

\* "+49 123 456789"
PlainPhone == <<"+", "4", "9", " ", "1", "2", "3", " ", "4", "5", "6", "7", "8", "9">>

\* "example.com"
PlainHost == <<"e", "x", "a", "m", "p", "l", "e", ".", "c", "o", "m">>

UrlValues ==
    {JNull, JNum, JStr(PlainPhone), JStr(PlainHost)}
    \cup {JStr(pad \o prefix \o tail) :
            pad \in {<<>>, <<" ">>}, prefix \in UrlPrefixes, tail \in UrlTails}

InitUrl ==
    /\ categories = <<>>
    /\ links = <<>>
    /\ req \in {Request("validate_url", NoId, NoId, value, NoId, <<>>, 1) : value \in UrlValues}
    /\ resp = NoResponse
    /\ nreq = 0
    /\ refused = {}
    /\ lastWrite = 0
    /\ procs = <<>>

\* _validate_url(value, "url") returns or raises
ValidateUrlCall ==
    LET result == ValidateUrl(req.raw, "url") IN
    /\ req.op = "validate_url"
    /\ resp = NoResponse
    /\ resp' = [op |-> "validate_url", id |-> NoId, sid |-> NoId,
                statusCode |-> IF result.ok THEN 0 ELSE result.status, body |-> result]
    /\ UNCHANGED <<categories, links, req, nreq, refused, lastWrite, procs>>

NextUrl == ValidateUrlCall

SpecUrl == InitUrl /\ [][NextUrl]_vars

(***************************************************************************)
(* SpecRouted: handler invoked with events; the method and the path decide *)
(* the operation.                                                          *)
(***************************************************************************)
UpperChar(c) ==
    CASE c = "o" -> "O" [] c = "p" -> "P" [] c = "t" -> "T" [] c = "i" -> "I"
      [] c = "n" -> "N" [] c = "s" -> "S" [] c = "g" -> "G" [] c = "e" -> "E"
      [] OTHER -> c

\* a method compared as it was sent
UpperAsSent(s) == s

\* str.upper()
Upper(s) == [i \in 1..Len(s) |-> UpperChar(s[i])]

RECURSIVE SplitFrom(_, _, _)
SplitFrom(path, i, current) ==
    LET segment == IF current = <<>> THEN <<>> ELSE <<current>>
    IN  IF i > Len(path) THEN segment
        ELSE IF path[i] = "/" THEN segment \o SplitFrom(path, i + 1, <<>>)
        ELSE SplitFrom(path, i + 1, Append(current, path[i]))

\* [segment for segment in raw_path.split("/") if segment]
Segments(path) == SplitFrom(path, 1, <<>>)

LinksSegment == <<"l", "i", "n", "k", "s">>
CategoriesSegment == <<"c", "a", "t", "e", "g", "o", "r", "i", "e", "s">>
SublinksSegment == <<"s", "u", "b", "l", "i", "n", "k", "s">>
LinksPath == <<"/">> \o LinksSegment
CategoriesPath == <<"/">> \o CategoriesSegment

MethodGet == <<"G", "E", "T">>
MethodPost == <<"P", "O", "S", "T">>
MethodPut == <<"P", "U", "T">>
MethodDelete == <<"D", "E", "L", "E", "T", "E">>
MethodOptions == <<"O", "P", "T", "I", "O", "N", "S">>

\* event.get("pathParameters") or {} read at a name; NoId when absent
PathParameter(event, name) ==
    IF name \in DOMAIN event.pathParameters THEN event.pathParameters[name] ELSE NoId

\* an extraction that reads the path only
ExtractResourceIdFromPath(event, collection, parameterName) ==
    LET segments == Segments(event.rawPath)
    IN  IF Len(segments) >= 2 /\ segments[1] = collection THEN segments[2]
        ELSE NoId

\* _extract_resource_id; NoId is None
ExtractResourceId(event, collection, parameterName) ==
    LET candidate == PathParameter(event, parameterName)
        segments == Segments(event.rawPath)
    IN  IF candidate # NoId THEN candidate
        ELSE IF Len(segments) >= 2 /\ segments[1] = collection THEN segments[2]
        ELSE NoId

\* _extract_sublink_id
ExtractSublinkId(event) ==
    LET candidate == PathParameter(event, "sublinkId")
        segments == Segments(event.rawPath)
    IN  IF candidate # NoId THEN candidate
        ELSE IF /\ Len(segments) >= 4
                /\ segments[1] = LinksSegment
                /\ segments[3] = SublinksSegment
        THEN segments[4]
        ELSE NoId

\* the operation handler calls, with the ids it passes
Routed(op, id, sid) == [ok |-> TRUE, op |-> op, id |-> id, sid |-> sid]

RouteNotFound == HttpError(404, "Route not found")
MethodNotAllowed == HttpError(405, "Method not allowed")

\* handler: the branch the method and the path select
Route(event) ==
    LET method == Upper(event.method)
        rawPath == event.rawPath
        segments == Segments(rawPath)
        linkId == ExtractResourceId(event, LinksSegment, "linkId")
        sublinkId == ExtractSublinkId(event)
        categoryId == ExtractResourceId(event, CategoriesSegment, "categoryId")
    IN  IF method = MethodOptions THEN Routed("options", NoId, NoId)
        ELSE IF StartsWith(rawPath, LinksPath)
        THEN IF method = MethodGet /\ rawPath = LinksPath THEN Routed("list_links", NoId, NoId)
             ELSE IF method = MethodPost /\ rawPath = LinksPath
             THEN Routed("create_link", NoId, NoId)
             ELSE IF linkId = NoId THEN RouteNotFound
             ELSE IF Len(segments) >= 3 /\ segments[3] = SublinksSegment
             THEN IF method = MethodPost /\ Len(segments) = 3
                  THEN Routed("create_sublink", linkId, NoId)
                  ELSE IF sublinkId = NoId THEN RouteNotFound
                  ELSE IF method = MethodPut THEN Routed("update_sublink", linkId, sublinkId)
                  ELSE IF method = MethodDelete THEN Routed("delete_sublink", linkId, sublinkId)
                  ELSE MethodNotAllowed
             ELSE IF method = MethodGet THEN Routed("get_link", linkId, NoId)
             ELSE IF method = MethodPut THEN Routed("update_link", linkId, NoId)
             ELSE IF method = MethodDelete THEN Routed("delete_link", linkId, NoId)
             ELSE MethodNotAllowed
        ELSE IF StartsWith(rawPath, CategoriesPath)
        THEN IF method = MethodGet /\ rawPath = CategoriesPath
             THEN Routed("list_categories", NoId, NoId)
             ELSE IF method = MethodPost /\ rawPath = CategoriesPath
             THEN Routed("create_category", NoId, NoId)
             ELSE IF categoryId = NoId THEN RouteNotFound
             ELSE IF method = MethodGet THEN Routed("get_category", categoryId, NoId)
             ELSE IF method = MethodPut THEN Routed("update_category", categoryId, NoId)
             ELSE IF method = MethodDelete THEN Routed("delete_category", categoryId, NoId)
             ELSE MethodNotAllowed
        ELSE RouteNotFound

\* the id the generator of the routed operation returns
GeneratedByRoute(op) ==
    CASE op = "create_link" -> LinkId(2)
      [] op = "create_category" -> CategoryId(2)
      [] op = "create_sublink" -> SublinkId(1)
      [] OTHER -> NoId

\* the pending invocation of an event: the event and the branch it selects
RoutedRequest(event) ==
    LET route == Route(event)
        op == IF route.ok THEN route.op ELSE "route_error"
    IN  [method |-> event.method, rawPath |-> event.rawPath,
         pathParameters |-> event.pathParameters, route |-> route,
         op |-> op,
         id |-> IF route.ok THEN route.id ELSE NoId,
         sid |-> IF route.ok THEN route.sid ELSE NoId,
         raw |-> event.raw, newId |-> GeneratedByRoute(op), generated |-> <<>>, limit |-> 1]

\* "/" + "/".join(segments)
PathOf(segments) ==
    IF segments = <<>> THEN <<"/">>
    ELSE LET RECURSIVE Join(_)
             Join(i) == IF i > Len(segments) THEN <<>>
                        ELSE <<"/">> \o segments[i] \o Join(i + 1)
         IN  Join(1)

OtherSegment == <<"x">>

\* paths without path parameters
PlainPaths ==
    {PathOf(segments) : segments \in
        {<<>>, <<OtherSegment>>,
         <<LinksSegment>>, <<LinksSegment \o <<"X">>>>,
         <<LinksSegment \o <<"X">>, LinkId(1)>>,
         <<LinksSegment, LinkId(1), OtherSegment>>,
         <<LinksSegment, LinkId(1), SublinksSegment>>,
         <<LinksSegment, LinkId(1), SublinksSegment, SublinkId(2), OtherSegment>>,
         <<CategoriesSegment>>, <<CategoriesSegment \o <<"X">>>>,
         <<CategoriesSegment, CategoryId(2), OtherSegment>>}}

\* paths of the routes with path parameters, with the parameters the gateway
\* extracts from them
ParameterPaths ==
    {[rawPath |-> PathOf(<<LinksSegment, LinkId(1)>>),
      pathParameters |-> [linkId |-> LinkId(1)]],
     [rawPath |-> PathOf(<<LinksSegment, LinkId(1), SublinksSegment>>),
      pathParameters |-> [linkId |-> LinkId(1)]],
     [rawPath |-> PathOf(<<LinksSegment, LinkId(1), SublinksSegment, SublinkId(2)>>),
      pathParameters |-> [linkId |-> LinkId(1), sublinkId |-> SublinkId(2)]],
     [rawPath |-> PathOf(<<CategoriesSegment, CategoryId(2)>>),
      pathParameters |-> [categoryId |-> CategoryId(2)]]}

\* the paths, each without path parameters (the handler reads the ids from
\* rawPath) and, for the routes that have them, with path parameters
EventPaths ==
    {[rawPath |-> path, pathParameters |-> <<>>] :
        path \in PlainPaths \cup {p.rawPath : p \in ParameterPaths}}
    \cup ParameterPaths

EventMethods ==
    {MethodGet, MethodPost, MethodPut, MethodDelete, MethodOptions,
     <<"P", "A", "T", "C", "H">>, <<"o", "p", "t", "i", "o", "n", "s">>,
     <<"O", "p", "t", "i", "o", "n", "s">>, <<"g", "e", "t">>}

EventBodies ==
    {NoRawBody, [t |-> "invalid", v |-> <<>>],
     JObj([name |-> JStr(NameB), url |-> JStr(UrlHttp), categoryId |-> JStr(CategoryId(1))])}

RoutedRequests ==
    {RoutedRequest([method |-> method, rawPath |-> path.rawPath,
                    pathParameters |-> path.pathParameters, raw |-> raw]) :
        method \in EventMethods, path \in EventPaths, raw \in EventBodies}

MaxEvents == 2

\* handler is invoked with an event
ReceiveEvent(r) ==
    /\ req = NoRequest
    /\ nreq < MaxEvents
    /\ req' = r
    /\ UNCHANGED <<categories, links, resp, nreq, refused, lastWrite, procs>>

\* OPTIONS: return response(204, None)
Options ==
    /\ req.op = "options"
    /\ Serve(Outcome(categories, links, Response(204, NoBody)))

\* handler raised 'Route not found' or 'Method not allowed'
RouteRefused ==
    /\ req.op = "route_error"
    /\ Serve(Outcome(categories, links, ErrorResponse(req.route)))

InitRouted ==
    /\ categories = StoredCategories
    /\ links = StoredLink
    /\ req = NoRequest
    /\ resp = NoResponse
    /\ nreq = 0
    /\ refused = {}
    /\ lastWrite = 0
    /\ procs = <<>>

NextRouted ==
    \/ \E r \in RoutedRequests : ReceiveEvent(r)
    \/ Options
    \/ RouteRefused
    \/ Handle

SpecRouted == InitRouted /\ [][NextRouted]_vars

(***************************************************************************)
(* SpecExtract: handler invoked with events whose path parameters are      *)
(* absent, empty, or name another record than the path does.  No path      *)
(* names the second link, the first category or the first sublink.         *)
(***************************************************************************)
ExtractPaths ==
    {PathOf(segments) : segments \in
        {<<LinksSegment>>, <<CategoriesSegment>>,
         <<LinksSegment, LinkId(1)>>,
         <<LinksSegment, LinkId(1), SublinksSegment>>,
         <<LinksSegment, LinkId(1), SublinksSegment, SublinkId(2)>>,
         <<LinksSegment, LinkId(1), OtherSegment, SublinkId(2)>>,
         <<CategoriesSegment, CategoryId(2)>>}}

ExtractParameters ==
    {<<>>,
     [linkId |-> LinkId(2)],
     [linkId |-> <<>>],
     [linkId |-> LinkId(2), sublinkId |-> SublinkId(1)],
     [linkId |-> <<>>, sublinkId |-> <<>>],
     [sublinkId |-> SublinkId(1)],
     [categoryId |-> CategoryId(1)],
     [categoryId |-> <<>>]}

ExtractRequests ==
    {RoutedRequest([method |-> method, rawPath |-> path, pathParameters |-> parameters,
                    raw |-> JObj([name |-> JStr(NameB)])]) :
        method \in {MethodGet, MethodPost, MethodPut, MethodDelete},
        path \in ExtractPaths, parameters \in ExtractParameters}

\* the links table after a second POST /links, for a link in the second
\* category with one sublink
TwoLinks ==
    Put(StoredLink, LinkId(2),
        [link_id |-> LinkId(2), name |-> NameA, url |-> UrlHttp,
         category_ids |-> <<CategoryId(2)>>, category_id |-> CategoryId(2),
         sublinks |-> <<[id |-> SublinkId(1), name |-> NameA, url |-> UrlHttp]>>])

InitExtract ==
    /\ categories = StoredCategories
    /\ links = TwoLinks
    /\ req = NoRequest
    /\ resp = NoResponse
    /\ nreq = 0
    /\ refused = {}
    /\ lastWrite = 0
    /\ procs = <<>>

NextExtract ==
    \/ \E r \in ExtractRequests : ReceiveEvent(r)
    \/ RouteRefused
    \/ Handle

SpecExtract == InitExtract /\ [][NextExtract]_vars

(***************************************************************************)
(* SpecEdits: links created and updated with sublink lists and with bodies *)
(* that mix fields the handler accepts with fields it refuses, on tables   *)
(* that hold a link with one sublink.                                      *)
(***************************************************************************)
InitEdits ==
    /\ categories = StoredCategories
    /\ links = StoredLink
    /\ req = NoRequest
    /\ resp = NoResponse
    /\ nreq = 0
    /\ refused = {}
    /\ lastWrite = 0
    /\ procs = <<>>

\* sublink lists: an id twice, two ids, an entry whose id is generated
EditSublinkLists ==
    {JList(list) : list \in {<<EntryOne, EntryOne>>, <<EntryOne, EntryTwo>>,
                             <<EntryOne, EntryNoId>>, <<>>}}

EditCreateLinkBodies ==
    {JObj([name |-> JStr(NameA), url |-> JStr(UrlHttp),
           categoryIds |-> JList(<<JStr(CategoryId(1))>>), sublinks |-> list]) :
        list \in EditSublinkLists}

\* a new name together with a field that is refused, and alone
EditUpdateLinkBodies ==
    {JObj([name |-> JStr(NameB)] @@ rest) :
        rest \in {<<>>, [url |-> JStr(<<"x">>)], [description |-> JNum],
                  [categoryIds |-> JList(<<JStr(MissingCategoryId)>>)],
                  [categoryIds |-> JList(<<JStr(CategoryId(2)), JStr(MissingCategoryId)>>)],
                  [categoryId |-> JStr(MissingCategoryId)],
                  [sublinks |-> JStr(NameA)]}
                 \cup {[sublinks |-> list] : list \in EditSublinkLists}}
    \cup {JObj([name |-> JStr(Blank), url |-> JStr(UrlTel)]), JObj(<<>>), JObj(Unrecognized)}

EditCreateSublinkBodies ==
    {JObj([id |-> JStr(SublinkId(2)), name |-> JStr(NameA), url |-> JStr(UrlHttp)]),
     JObj([id |-> JStr(SublinkId(1)), name |-> JStr(NameA), url |-> JStr(UrlHttp)]),
     JObj([name |-> JStr(NameA), url |-> JStr(UrlHttp)])}

EditRequests ==
    UNION {{Request("create_link", NoId, NoId, raw, LinkId(2), g, 1) : g \in GeneratedFor(raw)} :
            raw \in EditCreateLinkBodies}
    \cup UNION {{Request("update_link", l, NoId, raw, NoId, g, 1) : g \in GeneratedFor(raw)} :
            raw \in EditUpdateLinkBodies, l \in GenerateLinkId}
    \cup UNION {{Request("create_sublink", LinkId(1), NoId, raw, g, <<>>, 1) :
                    g \in GeneratedIdFor(raw)} : raw \in EditCreateSublinkBodies}

MaxEdits == 3

\* handler is invoked with request r
ReceiveEdit(r) == nreq < MaxEdits /\ Receive(r)

NextEdits ==
    \/ \E r \in EditRequests : ReceiveEdit(r)
    \/ PostLink
    \/ PutLink
    \/ PostSublink

SpecEdits == InitEdits /\ [][NextEdits]_vars

(***************************************************************************)
(* SpecUpdates: two overlapping invocations of _update_link on the stored  *)
(* link, each with its get_item calls for the category ids and its one     *)
(* update_item call.                                                       *)
(***************************************************************************)
NameC == <<"c">>
UrlOther == HttpPrefix \o <<"y">>

OverlappingUpdateBodies ==
    {[name |-> JStr(NameB)],
     [name |-> JStr(NameC)],
     [url |-> JStr(UrlOther)],
     [description |-> JStr(DescE)],
     [name |-> JStr(NameC), description |-> JNull],
     [categoryIds |-> JList(<<JStr(CategoryId(2)), JStr(CategoryId(1))>>)],
     [categoryId |-> JStr(CategoryId(2)), url |-> JStr(UrlOther)],
     [sublinks |-> JList(<<EntryOne>>)],
     [name |-> JStr(NameB), sublinks |-> JNull]}

UpdateRequests ==
    {Request("update_link", LinkId(1), NoId, JObj(body), NoId, <<>>, 1) :
        body \in OverlappingUpdateBodies}

InitUpdates ==
    /\ categories = StoredCategories
    /\ links = StoredLink
    /\ req = NoRequest
    /\ resp = NoResponse
    /\ nreq = 0
    /\ refused = {}
    /\ lastWrite = 0
    /\ procs = [p \in Procs |-> Idle]

NextUpdates ==
    \E p \in Procs :
        \/ \E r \in UpdateRequests : Begin(p, r)
        \/ CategoryGet(p)
        \/ LinkUpdate(p)

SpecUpdates == InitUpdates /\ [][NextUpdates]_vars

(***************************************************************************)
(* SpecHasLinks: _category_has_links on its own, over links tables of      *)
(* every shape the handlers and older versions wrote, and every page size. *)
(***************************************************************************)
\* the record _create_link writes for link l in the categories ids
LinkIn(l, ids) ==
    [link_id |-> l, name |-> NameA, url |-> UrlHttp,
     category_ids |-> ids, category_id |-> ids[1]]

LinkShapes == {"first", "second", "both", "legacy"}

LinkOfShape(l, shape) ==
    CASE shape = "first" -> LinkIn(l, <<CategoryId(1)>>)
      [] shape = "second" -> LinkIn(l, <<CategoryId(2)>>)
      [] shape = "both" -> LinkIn(l, <<CategoryId(1), CategoryId(2)>>)
      [] OTHER -> [LegacyLink EXCEPT !.link_id = l]

ScannedTables ==
    UNION {{[l \in stored |-> LinkOfShape(l, shapes[l])] : shapes \in [stored -> LinkShapes]} :
            stored \in SUBSET GenerateLinkId}

HasLinksRequests ==
    {Request("has_links", c, NoId, NoRawBody, NoId, <<>>, limit) :
        c \in GenerateCategoryId \cup {MissingCategoryId}, limit \in PageLimits}

InitHasLinks ==
    /\ categories = StoredCategories
    /\ links \in ScannedTables
    /\ req \in HasLinksRequests
    /\ resp = NoResponse
    /\ nreq = 0
    /\ refused = {}
    /\ lastWrite = 0
    /\ procs = <<>>

\* _category_has_links(category_id) returns
CategoryHasLinksCall ==
    /\ req.op = "has_links"
    /\ resp = NoResponse
    /\ resp' = [op |-> "has_links", id |-> req.id, sid |-> NoId, statusCode |-> 0,
                body |-> [result |-> CategoryHasLinks(links, req.id, req.limit)]]
    /\ UNCHANGED <<categories, links, req, nreq, refused, lastWrite, procs>>

NextHasLinks == CategoryHasLinksCall

SpecHasLinks == InitHasLinks /\ [][NextHasLinks]_vars

(***************************************************************************)
(* Properties.                                                             *)
(***************************************************************************)
\* every category id a stored link carries, in category_ids or category_id
ReferencedBy(item) ==
    (IF "category_ids" \in DOMAIN item
     THEN {item.category_ids[i] : i \in 1..Len(item.category_ids)} ELSE {})
    \cup (IF "category_id" \in DOMAIN item THEN {item.category_id} ELSE {})

\* C1: from empty tables, after any sequence of requests served one at a
\* time, every id in a stored link's category_ids, and its category_id, is
\* the key of a stored category.
C1_ReferencesExist ==
    \A l \in DOMAIN links : ReferencedBy(links[l]) \subseteq DOMAIN categories

\* a link is stored, and a delete-category was refused because of it
C1_Witness ==
    /\ DOMAIN links # {}
    /\ resp.op = "delete_category"
    /\ resp.statusCode = 409
    /\ \E l \in DOMAIN links : resp.id \in ReferencedBy(links[l])

\* the ids of the category field create-link reads ("categoryIds", or the
\* legacy "categoryId" when "categoryIds" is absent), trimmed
SuppliedCategoryField(raw) ==
    LET body == IF raw.t = "obj" THEN raw.v ELSE <<>> IN
    IF "categoryIds" \in DOMAIN body THEN body["categoryIds"] ELSE Get(body, "categoryId")

SuppliedCategoryIds(raw) ==
    LET field == SuppliedCategoryField(raw) IN
    IF field.t = "str" THEN {Strip(field.v)}
    ELSE IF field.t = "list"
         THEN {Strip(field.v[i].v) : i \in {j \in 1..Len(field.v) : field.v[j].t = "str"}}
         ELSE {}

FirstSeen(seq) ==
    LET keep == {i \in 1..Len(seq) : \A j \in 1..(i - 1) : seq[j] # seq[i]}
    IN  [k \in 1..Cardinality(keep) |->
            seq[CHOOSE i \in keep : Cardinality({j \in keep : j <= i}) = k]]

\* the category ids a create-link body supplies, in the order of the body
SuppliedCategorySeq(raw) ==
    LET field == SuppliedCategoryField(raw) IN
    IF field.t = "str" THEN <<Strip(field.v)>>
    ELSE IF field.t = "list" THEN [i \in 1..Len(field.v) |-> Strip(field.v[i].v)]
    ELSE <<>>

\* C5: when a create-link request succeeds (its input is valid and its
\* category ids all exist), a get of the created link returns categoryIds
\* equal to the ids of the input, each kept at its first occurrence, and
\* categoryId equal to the first of them.
C5_CreateThenGetCategoryIds ==
    [][(req.op = "create_link" /\ resp'.statusCode = 201)
       => LET got == GetLink(categories', links', resp'.body.link.id).response
              expected == FirstSeen(SuppliedCategorySeq(req.raw))
          IN  /\ got.statusCode = 200
              /\ got.body.link.categoryIds = expected
              /\ got.body.link.categoryId = expected[1]]_vars

\* a link was created from a list of two ids given second category first,
\* and is stored with the ids in that order
C5_Witness ==
    /\ resp.op = "create_link"
    /\ resp.statusCode = 201
    /\ resp.body.link.categoryIds = <<CategoryId(2), CategoryId(1)>>
    /\ resp.body.link.categoryId = CategoryId(2)
    /\ links[resp.body.link.id].category_ids = <<CategoryId(2), CategoryId(1)>>

\* some stored link references the category
Referenced(categoryId) == \E l \in DOMAIN links : categoryId \in ReferencedBy(links[l])

\* C4: delete-category on an id that a stored link references, through
\* category_ids or through the legacy category_id, returns 409 and leaves
\* the category stored; on a stored category that no link references (any
\* more) it returns 204 and the category is absent afterwards.
C4_DeleteCategoryBlockedWhileReferenced ==
    [][req.op = "delete_category"
       => /\ Referenced(req.id)
             => /\ resp'.statusCode = 409
                /\ req.id \in DOMAIN categories'
                /\ categories' = categories
          /\ (~Referenced(req.id) /\ req.id \in DOMAIN categories)
             => /\ resp'.statusCode = 204
                /\ req.id \notin DOMAIN categories']_vars

\* a category whose deletion was refused with 409 has been deleted with 204
\* after the link that referenced it was re-pointed to the other category
C4_Witness ==
    /\ resp.op = "delete_category"
    /\ resp.statusCode = 204
    /\ resp.id \in refused
    /\ resp.id \notin DOMAIN categories
    /\ LinkId(2) \in DOMAIN links
    /\ links[LinkId(2)].category_id = CategoryId(1)

\* C8: when delete-sublink removes the only sublink of a link, the stored
\* record afterwards has no sublinks attribute, and a read of the link
\* serializes sublinks as the empty sequence.
C8_LastSublinkRemovesAttribute ==
    [][(/\ req.op = "delete_sublink"
        /\ req.id \in DOMAIN links
        /\ "sublinks" \in DOMAIN links[req.id]
        /\ Len(links[req.id].sublinks) = 1
        /\ links[req.id].sublinks[1].id = req.sid)
       => /\ resp'.statusCode = 200
          /\ "sublinks" \notin DOMAIN links'[req.id]
          /\ resp'.body.link.sublinks = <<>>
          /\ GetLink(categories', links', req.id).response.body.link.sublinks = <<>>]_vars

\* the last sublink of a stored link was deleted
C8_Witness ==
    /\ resp.op = "delete_sublink"
    /\ resp.statusCode = 200
    /\ resp.id \in DOMAIN links
    /\ "sublinks" \notin DOMAIN links[resp.id]
    /\ resp.body.link.sublinks = <<>>

\* the body fields each update operation reads
RecognizedFields(op) ==
    IF op = "update_category" THEN {"name", "description"}
    ELSE IF op = "update_link"
    THEN {"name", "url", "categoryIds", "categoryId", "description", "sublinks"}
    ELSE {"name", "url", "description"}

\* C9: an update of a link, a category or a sublink whose body is empty or
\* has none of the fields the operation reads returns 400, whether or not
\* its target is stored, and leaves both tables as they were.
C9_EmptyUpdateRejected ==
    [][(/\ req.op \in {"update_category", "update_link", "update_sublink"}
        /\ \/ req.raw.t = "empty"
           \/ req.raw.t = "obj" /\ DOMAIN req.raw.v \cap RecognizedFields(req.op) = {})
       => /\ resp'.statusCode = 400
          /\ categories' = categories
          /\ links' = links]_vars

\* an update of a sublink of a link that is not stored, with a body that has
\* no field the operation reads, was refused
C9_Witness ==
    /\ resp.op = "update_sublink"
    /\ resp.statusCode = 400
    /\ resp.body = [message |-> "No updatable fields provided"]
    /\ resp.id \notin DOMAIN links

\* the value is a name _validate_string accepts
ValidName(value) ==
    value.t = "str" /\ Strip(value.v) # <<>> /\ Len(Strip(value.v)) <= MaxNameLength

\* the stored description of a record, or none
StoredDescription(item) ==
    IF "description" \in DOMAIN item THEN <<item.description>> ELSE <<>>

\* C10: an update of a stored link or category whose body has description
\* null (alone or with a valid name) removes the stored description: the
\* response is 200 without description and a get afterwards has none;
\* an update whose body has no description leaves the stored one as it was.
C10_NullDescriptionRemoved ==
    [][(/\ req.op \in {"update_category", "update_link"}
        /\ req.raw.t = "obj"
        /\ req.id \in DOMAIN (IF req.op = "update_category" THEN categories ELSE links))
       => LET body == req.raw.v
              before == IF req.op = "update_category" THEN categories ELSE links
              after == IF req.op = "update_category" THEN categories' ELSE links'
              payload == IF req.op = "update_category" THEN resp'.body.category
                         ELSE resp'.body.link
              got == IF req.op = "update_category"
                     THEN GetCategory(categories', links', req.id).response.body.category
                     ELSE GetLink(categories', links', req.id).response.body.link
          IN  /\ (/\ "description" \in DOMAIN body
                  /\ body["description"] = JNull
                  /\ DOMAIN body \subseteq {"name", "description"}
                  /\ "name" \in DOMAIN body => ValidName(body["name"]))
                 => /\ "description" \notin DOMAIN after[req.id]
                    /\ resp'.statusCode = 200
                    /\ "description" \notin DOMAIN payload
                    /\ "description" \notin DOMAIN got
              /\ "description" \notin DOMAIN body
                 => StoredDescription(after[req.id]) = StoredDescription(before[req.id])]_vars

\* an update of a stored category with description null was answered 500 and
\* the description is still stored
C10_Witness ==
    /\ resp.op = "update_category"
    /\ resp.statusCode = 500
    /\ resp.id \in DOMAIN categories
    /\ "description" \in DOMAIN categories[resp.id]

\* C2: with requests that overlap, interleaved at the calls of the storage
\* layer, no stored link has in its category_ids the id of a category that
\* has been deleted.
C2_NoLinkReferencesDeletedCategory ==
    \A c \in DOMAIN StoredCategories \ DOMAIN categories :
        \A l \in DOMAIN links :
            "category_ids" \in DOMAIN links[l]
            => \A i \in 1..Len(links[l].category_ids) : links[l].category_ids[i] # c

\* a delete-category was answered 204 and a create-link that names the
\* deleted category was answered 201: the link is stored
C2_Witness ==
    \E p, q \in Procs :
        /\ procs[p].pc = "done" /\ procs[p].req.op = "delete_category"
        /\ procs[p].status = 204
        /\ procs[q].pc = "done" /\ procs[q].req.op = "create_link"
        /\ procs[q].status = 201
        /\ procs[q].req.newId \in DOMAIN links
        /\ \E i \in 1..Len(links[procs[q].req.newId].category_ids) :
               links[procs[q].req.newId].category_ids[i] = procs[p].req.id

\* process p has served a create-sublink with the given status
CreateSublinkServed(p, status) ==
    /\ procs[p].pc = "done"
    /\ procs[p].req.op = "create_sublink"
    /\ procs[p].status = status

\* the sublink id the caller chose in the request of process p, if any
CallerChosenId(p) ==
    IF procs[p].req.raw.t = "obj" /\ "id" \in DOMAIN procs[p].req.raw.v
    THEN {procs[p].req.raw.v["id"].v} ELSE {}

\* C6: two overlapping create-sublink requests on the same link with the
\* same caller-chosen sublink id never both return 201.
C6_SameIdNotBothCreated ==
    \A p, q \in Procs :
        (/\ p # q
         /\ procs[p].req.op = "create_sublink" /\ procs[q].req.op = "create_sublink"
         /\ procs[p].req.id = procs[q].req.id
         /\ CallerChosenId(p) # {}
         /\ CallerChosenId(p) = CallerChosenId(q))
        => ~(CreateSublinkServed(p, 201) /\ CreateSublinkServed(q, 201))

\* both requests with the same caller-chosen id were answered 201, and the
\* stored list has one entry with the id
C6_Witness ==
    /\ \A p \in Procs : CreateSublinkServed(p, 201) /\ CallerChosenId(p) = {SublinkId(1)}
    /\ Len(SelectSeq(links[LinkId(1)].sublinks, LAMBDA entry : entry.id = SublinkId(1))) = 1

\* the ids of a sublink list
SublinkIds(sublinks) == {sublinks[i].id : i \in 1..Len(sublinks)}

\* processes p and q have created sublinks with different ids on the same
\* link, both answered 201; q wrote last, and the list q had read did not
\* have the sublink of p
Clobbered(p, q) ==
    /\ p # q
    /\ CreateSublinkServed(p, 201)
    /\ CreateSublinkServed(q, 201)
    /\ procs[p].req.id = procs[q].req.id
    /\ procs[p].local.entry.id # procs[q].local.entry.id
    /\ lastWrite = q
    /\ procs[p].local.entry.id \notin SublinkIds(procs[q].local.read)

\* C7: overlapping sublink edits on one link clobber each other: when two
\* create-sublink requests with different ids have both returned 201 and the
\* later writer had read the list before the earlier one wrote, the stored
\* list has the later writer's sublink and not the earlier writer's.
C7_ConcurrentSublinkEditsClobber ==
    \A p, q \in Procs :
        Clobbered(p, q)
        => LET stored == SublinkIds(ExtractSublinks(links[procs[q].req.id]))
           IN  /\ procs[q].local.entry.id \in stored
               /\ procs[p].local.entry.id \notin stored

\* two create-sublink requests were both answered 201 and the stored list
\* has the sublink of one of them only
C7_Witness ==
    \E p, q \in Procs :
        /\ Clobbered(p, q)
        /\ procs[p].local.entry.id
               \notin SublinkIds(ExtractSublinks(links[procs[q].req.id]))

\* _validate_url has been applied to a string
UrlValidated == resp.op = "validate_url" /\ req.raw.t = "str"

\* C11: _validate_url("+49 123 456789") returns "tel:+49123456789".
C11_PlainPhoneAccepted ==
    (UrlValidated /\ req.raw.v = PlainPhone)
    => resp.body = Ok(<<"t", "e", "l", ":", "+", "4", "9", "1", "2", "3",
                        "4", "5", "6", "7", "8", "9">>)

\* _validate_url("+49 123 456789") raised the 400 of a value that is no
\* http(s) url
C11_Witness ==
    /\ UrlValidated
    /\ req.raw.v = PlainPhone
    /\ resp.statusCode = 400
    /\ resp.body.message = "'url' must start with http:// or https://"

\* the value trimmed and lower-cased starts with the prefix
StartsWithIgnoringCase(value, prefix) == StartsWith(Lower(Strip(value)), prefix)

\* C12: a value that trimmed is not empty and does not start with "tel:" in
\* any letter case is returned trimmed if and only if it starts with
\* "http://" or "https://" compared without regard to case; otherwise the
\* call fails with 400 and the message "must start with http:// or https://".
C12_HttpPrefixIgnoringCase ==
    (/\ UrlValidated
     /\ Strip(req.raw.v) # <<>>
     /\ ~StartsWithIgnoringCase(req.raw.v, TelPrefix))
    => IF \/ StartsWithIgnoringCase(req.raw.v, HttpPrefix)
          \/ StartsWithIgnoringCase(req.raw.v, HttpsPrefix)
       THEN resp.body = Ok(Strip(req.raw.v))
       ELSE /\ resp.statusCode = 400
            /\ resp.body.message = "'url' must start with http:// or https://"

\* a value that starts with "HTTP://" was refused with 400
C12_Witness ==
    /\ UrlValidated
    /\ StartsWith(req.raw.v, <<"H", "T", "T", "P", ":", "/", "/">>)
    /\ resp.statusCode = 400
    /\ resp.body.message = "'url' must start with http:// or https://"

\* what follows "tel:" in the trimmed value, without whitespace,
\* parentheses, hyphens and dots
StrippedPhone(value) ==
    LET trimmed == Strip(value)
        kept(c) == c \notin {" ", "\t", "(", ")", "-", "."}
    IN  SelectSeq(SubSeq(trimmed, 5, Len(trimmed)), kept)

\* the stripped remainder is empty, has more than one '+', has a '+' that is
\* not its first character, or has a character other than a digit and a
\* leading '+'
PhoneRefused(stripped) ==
    \/ stripped = <<>>
    \/ Cardinality({i \in 1..Len(stripped) : stripped[i] = "+"}) > 1
    \/ \E i \in 2..Len(stripped) : stripped[i] = "+"
    \/ \E i \in 1..Len(stripped) :
          stripped[i] \notin DigitChars /\ ~(i = 1 /\ stripped[i] = "+")

\* C13: for a value that lower-cased starts with "tel:", a returned result is
\* "tel:" followed by the remainder without whitespace, parentheses, hyphens
\* and dots, and starts with '+' if and only if that remainder does; the call
\* fails with 400 if the stripped remainder is empty, has more than one '+',
\* has a '+' that is not first, or has a non-digit other than a leading '+';
\* otherwise, with at least one digit, it returns.
C13_TelNormalized ==
    (UrlValidated /\ StartsWithIgnoringCase(req.raw.v, TelPrefix))
    => LET stripped == StrippedPhone(req.raw.v) IN
       /\ resp.body.ok
          => /\ resp.body.v = TelPrefix \o stripped
             /\ (resp.body.v[5] = "+") <=> (stripped[1] = "+")
       /\ PhoneRefused(stripped) => (~resp.body.ok /\ resp.statusCode = 400)
       /\ (~PhoneRefused(stripped) /\ stripped # <<"+">>) => resp.body.ok

\* "TEL:+ 4" was returned as "tel:+4"
C13_Witness ==
    /\ UrlValidated
    /\ req.raw.v = <<"T", "E", "L", ":", "+", " ", "4">>
    /\ resp.body = Ok(<<"t", "e", "l", ":", "+", "4">>)

\* the method is `name` in some letter case
MethodIs(method, name) ==
    /\ Len(method) = Len(name)
    /\ \A i \in 1..Len(name) : UpperChar(method[i]) = name[i]

\* the resource of the routes table a path names, "none" if it names none
PathShape(path) ==
    LET segments == Segments(path)
        n == Len(segments)
    IN  IF path # PathOf(segments) \/ n = 0 THEN "none"
        ELSE IF segments[1] = LinksSegment
        THEN IF n = 1 THEN "links"
             ELSE IF n = 2 THEN "link"
             ELSE IF n = 3 /\ segments[3] = SublinksSegment THEN "sublinks"
             ELSE IF n = 4 /\ segments[3] = SublinksSegment THEN "sublink"
             ELSE "none"
        ELSE IF segments[1] = CategoriesSegment
        THEN IF n = 1 THEN "categories" ELSE IF n = 2 THEN "category" ELSE "none"
        ELSE "none"

\* the verbs the routes table has for a resource
SupportedVerbs(shape) ==
    CASE shape \in {"links", "categories"} -> {MethodGet, MethodPost}
      [] shape \in {"link", "category"} -> {MethodGet, MethodPut, MethodDelete}
      [] shape = "sublinks" -> {MethodPost}
      [] shape = "sublink" -> {MethodPut, MethodDelete}
      [] OTHER -> {}

\* the method and the path of the pending invocation are a row of the table
MatchesRow == \E verb \in SupportedVerbs(PathShape(req.rawPath)) : MethodIs(req.method, verb)

\* the pending invocation of an event is answered in this step
Answered == req.op # "none" /\ req' = NoRequest

\* C14: a request whose method and path match no row of the routes table,
\* OPTIONS aside, is answered 404 or 405 by the router itself: no operation
\* runs, so that no storage call is made and both tables stay as they are.
C14_UnmatchedRouteRefused ==
    [][(Answered /\ ~MethodIs(req.method, MethodOptions) /\ ~MatchesRow)
       => /\ resp'.statusCode \in {404, 405}
          /\ req.op = "route_error"
          /\ UNCHANGED <<categories, links>>]_vars

\* GET /links/{id}/{other} on a stored link is pending with get-link as its
\* operation
C14_Witness ==
    /\ req.op = "get_link"
    /\ req.rawPath = PathOf(<<LinksSegment, LinkId(1), OtherSegment>>)
    /\ MethodIs(req.method, MethodGet)
    /\ req.id \in DOMAIN links

\* C15: a request on a resource path of the routes table with a verb the
\* table does not have for it is answered 405, and 404 'Route not found' is
\* answered only for a path that is no resource path of the table.
C15_UnsupportedVerbIs405 ==
    [][(Answered /\ ~MethodIs(req.method, MethodOptions))
       => /\ (PathShape(req.rawPath) # "none" /\ ~MatchesRow) => resp'.statusCode = 405
          /\ (resp'.statusCode = 404 /\ resp'.body = [message |-> "Route not found"])
             => PathShape(req.rawPath) = "none"]_vars

\* PUT /links is pending and the router has chosen 404 'Route not found'
C15_Witness ==
    /\ req.op = "route_error"
    /\ req.method = MethodPut
    /\ req.rawPath = LinksPath
    /\ req.route = RouteNotFound

\* C16: a request with method OPTIONS in any letter case, on any path and
\* with any body, is answered 204 with an empty body by the router itself:
\* the body is not parsed, no operation runs and both tables stay as they are.
C16_OptionsAnswered204 ==
    [][(Answered /\ MethodIs(req.method, MethodOptions))
       => /\ resp'.statusCode = 204
          /\ resp'.body = NoBody
          /\ req.op = "options"
          /\ UNCHANGED <<categories, links>>]_vars

\* an OPTIONS request has been answered 204 with an empty body, and an
\* "options" request on a link's path with a body that is no JSON is routed
\* the same way
C16_Witness ==
    /\ resp.op = "options"
    /\ resp.statusCode = 204
    /\ resp.body = NoBody
    /\ req.op = "options"
    /\ req.method = <<"o", "p", "t", "i", "o", "n", "s">>
    /\ req.raw.t = "invalid"
    /\ PathShape(req.rawPath) = "link"

\* the places of an invocation at which a storage call is due; each is the
\* only guard of the step that makes the call
StorageCalls ==
    {"category_get", "link_put", "link_update", "links_scan", "category_delete",
     "link_get", "sublinks_write", "single_call", "page_scan"}

\* process p gets its response in this step
Answers(p) == procs[p].pc # "done" /\ procs'[p].pc = "done"

\* C17: every invocation ends with a response: while it has none a storage
\* call is due, which returns or fails, an answer has one of the statuses of the API, a
\* domain error (400, 404, 405, 409) carries its own message, status 500
\* carries the fixed message 'Internal server error' and nothing else, a
\* failed storage call is answered 500 at once with both tables unchanged,
\* and an invocation that has answered makes no further step.
C17_EveryInvocationAnswered ==
    [][\A p \in Procs :
        /\ procs[p].pc \in {"idle", "done"} \cup StorageCalls
        /\ Answers(p)
           => /\ procs'[p].status \in {200, 201, 204, 400, 404, 405, 409, 500}
              /\ procs'[p].status = 500 => procs'[p].message = "Internal server error"
              /\ procs'[p].status \in {400, 404, 405, 409}
                 => procs'[p].message \notin {"", "Internal server error"}
        /\ StorageFault(p)
           => /\ Answers(p)
              /\ procs'[p].status = 500
              /\ UNCHANGED <<categories, links>>
        /\ procs[p].pc = "done" => procs'[p] = procs[p]]_vars

\* the second scan call of a list-links failed and the invocation was
\* answered 500
C17_Witness ==
    \E p \in Procs :
        /\ procs[p].pc = "done"
        /\ procs[p].req.op = "list_links"
        /\ procs[p].local.cursor > 0
        /\ procs[p].status = 500
        /\ procs[p].message = "Internal server error"

\* the items of a table in the order its scans return them
StoredInOrder(tbl, order) ==
    LET stored(key) == key \in DOMAIN tbl
        keys == SelectSeq(order, stored)
    IN  [i \in 1..Len(keys) |-> tbl[keys[i]]]

\* C18: list-links and list-categories return, in one response with status
\* 200, every stored item exactly once in store order, whatever the size of
\* the pages the scans return, and leave both tables unchanged.
C18_ListReturnsEveryPage ==
    [][/\ (req.op = "list_links" /\ req' = NoRequest)
          => /\ resp'.statusCode = 200
             /\ resp'.body = [links |->
                    LET items == StoredInOrder(links, LinkIdOrder)
                    IN  [i \in 1..Len(items) |-> Serialize(items[i])]]
             /\ UNCHANGED <<categories, links>>
       /\ (req.op = "list_categories" /\ req' = NoRequest)
          => /\ resp'.statusCode = 200
             /\ resp'.body = [categories |->
                    LET items == StoredInOrder(categories, CategoryIdOrder)
                    IN  [i \in 1..Len(items) |-> SerializeCategory(items[i])]]
             /\ UNCHANGED <<categories, links>>]_vars

\* a list-links returned as many links as there are link ids, more than one
\* page of any size
C18_Witness ==
    /\ resp.op = "list_links"
    /\ resp.statusCode = 200
    /\ Len(resp.body.links) = NumLinkIds
    /\ Scan(links, LinkIdOrder, 0, MaxPageLimit).LastEvaluatedKey # 0

\* process p has served a create-link or create-category with the status
Created(p, status) ==
    /\ procs[p].pc = "done"
    /\ procs[p].req.op \in {"create_link", "create_category"}
    /\ procs[p].status = status

\* processes p and q serve creates of the same kind with the same generated id
SameCreate(p, q) ==
    /\ p # q
    /\ procs[p].req.op = procs[q].req.op
    /\ procs[p].req.newId = procs[q].req.newId

\* some delete of the record that process p creates was answered 204
DeletedAgain(p) ==
    \E d \in DOMAIN procs :
        /\ procs[d].pc = "done"
        /\ procs[d].status = 204
        /\ procs[d].req.id = procs[p].req.newId
        /\ procs[d].req.op =
             (IF procs[p].req.op = "create_link" THEN "delete_link" ELSE "delete_category")

\* C19 as stated: of the creates with the same generated id at most one is
\* ever answered 201.
C19_OneCreatePerIdEver ==
    \A p, q \in DOMAIN procs : SameCreate(p, q) => ~(Created(p, 201) /\ Created(q, 201))

\* the table and the key of the put_item of a create
CreateTable(p) == IF procs[p].req.op = "create_link" THEN links ELSE categories

\* C19: the put_item of a create-link or create-category whose generated id
\* is the key of a stored record, stored before or by a create that overlaps,
\* is answered 409 and leaves the table as it is; on a free id it is answered
\* 201 and stores the record; and of the creates with the same id at most one
\* is answered 201 unless the record was deleted in between.
C19_OneCreatePerStoredId ==
    [][\A p \in DOMAIN procs :
        /\ (Answers(p) /\ procs[p].req.op \in {"create_link", "create_category"})
           => IF procs[p].req.newId \in DOMAIN CreateTable(p)
              THEN /\ procs'[p].status = 409
                   /\ UNCHANGED <<categories, links>>
              ELSE /\ procs'[p].status = 201
                   /\ procs[p].req.newId \in DOMAIN CreateTable(p)'
        /\ \A q \in DOMAIN procs :
              (SameCreate(p, q) /\ Created(p, 201)' /\ Created(q, 201)') => DeletedAgain(p)']_vars

\* two overlapping creates got the same free id from the generator: one was
\* answered 201, the other 409, and no delete has touched the record
C19_Witness ==
    \E p, q \in DOMAIN procs :
        /\ SameCreate(p, q)
        /\ procs[p].req.op = "create_category"
        /\ procs[p].req.newId \notin DOMAIN OneCategory
        /\ Created(p, 201)
        /\ Created(q, 409)
        /\ ~DeletedAgain(p)
        /\ procs[p].req.newId \in DOMAIN categories

\* C20: in every reachable state, whatever the order and the interleaving of
\* create-link, update-link with a sublinks list, create-sublink,
\* update-sublink and delete-sublink, and whichever storage calls fail, the
\* sublinks of a stored link have pairwise distinct ids.
C20_SublinkIdsDistinct ==
    \A l \in DOMAIN links :
        "sublinks" \in DOMAIN links[l]
        => \A i, j \in 1..Len(links[l].sublinks) :
              i # j => links[l].sublinks[i].id # links[l].sublinks[j].id

\* an update-link with a sublinks list and a create-sublink on the same link
\* overlapped, both were answered with success, and the link has two sublinks
C20_Witness ==
    \E p, q \in Procs :
        /\ procs[p].pc = "done" /\ procs[q].pc = "done"
        /\ procs[p].req.op = "update_link" /\ procs[p].status = 200
        /\ "sublinks" \in DOMAIN procs[p].req.raw.v
        /\ procs[q].req.op = "create_sublink" /\ procs[q].status = 201
        /\ procs[q].req.id = procs[p].req.id
        /\ "read" \in DOMAIN procs[q].local
        /\ procs[q].local.read # ExtractSublinks(links[procs[q].req.id])
        /\ Len(links[procs[q].req.id].sublinks) >= 2

\* the pending request is answered in this step with a refusal for a sublink
\* id that occurs twice
RefusedForDuplicateSublink ==
    /\ req.op \in {"create_link", "update_link", "create_sublink"}
    /\ req' = NoRequest
    /\ resp'.statusCode \in 400..499
    /\ resp'.body \in {[message |-> "Sublink already exists"],
                       [message |-> "Sublink identifiers must be unique"]}

\* C21: a request refused because of a duplicate sublink id, a create-sublink
\* with an id the link's sublinks have or a create-link or update-link whose
\* sublinks list has an id twice, is answered 409, and nothing is written.
C21_DuplicateSublinkIs409 ==
    [][RefusedForDuplicateSublink
       => /\ resp'.statusCode = 409
          /\ UNCHANGED <<categories, links>>]_vars

\* an update-link whose sublinks list has an id twice was answered 400
C21_Witness ==
    /\ resp.op = "update_link"
    /\ resp.statusCode = 400
    /\ resp.body = [message |-> "Sublink identifiers must be unique"]
    /\ resp.id \in DOMAIN links

\* the sublinks a stored link holds; none when the attribute is absent
StoredSublinks(item) == IF "sublinks" \in DOMAIN item THEN item.sublinks ELSE <<>>

\* the pending sublink operation `op` is answered with `status` in this step
SublinkServed(op, status) ==
    /\ req.op = op
    /\ req' = NoRequest
    /\ resp'.statusCode = status

\* entry `after` is entry `before` in every field the body does not name
OnlySuppliedFieldsDiffer(before, after, body) ==
    /\ after.id = before.id
    /\ \A f \in {"name", "url", "description"} \ DOMAIN body :
          /\ (f \in DOMAIN after) <=> (f \in DOMAIN before)
          /\ f \in DOMAIN before => after[f] = before[f]

\* C22: a successful create-sublink stores the previous list with the new
\* entry appended; a successful update-sublink stores a list of the same
\* length with the same ids at the same positions, in which only the matched
\* entry differs and only in the fields the body names; a successful
\* delete-sublink stores the previous list without the matching entry.
C22_SublinkFrame ==
    [][LET before == StoredSublinks(links[req.id])
           after == StoredSublinks(links'[req.id])
       IN  /\ SublinkServed("create_sublink", 201)
              => /\ Len(after) = Len(before) + 1
                 /\ SubSeq(after, 1, Len(before)) = before
                 /\ \A i \in 1..Len(before) : after[Len(after)].id # before[i].id
           /\ SublinkServed("update_sublink", 200)
              => /\ Len(after) = Len(before)
                 /\ \A i \in 1..Len(before) :
                       IF before[i].id = req.sid
                       THEN OnlySuppliedFieldsDiffer(before[i], after[i], req.raw.v)
                       ELSE after[i] = before[i]
           /\ SublinkServed("delete_sublink", 200)
              => /\ Len(after) = Len(before) - 1
                 /\ after = SelectSeq(before, LAMBDA entry : entry.id # req.sid)]_vars

\* the first of two sublinks was updated: its description is gone, and the
\* second is behind it
C22_Witness ==
    /\ resp.op = "update_sublink"
    /\ resp.statusCode = 200
    /\ resp.id \in DOMAIN links
    /\ Len(StoredSublinks(links[resp.id])) = 2
    /\ links[resp.id].sublinks[1].id = resp.sid
    /\ "description" \notin DOMAIN links[resp.id].sublinks[1]

\* process p takes a storage call of a sublink operation in this step
SublinkCall(p) ==
    /\ procs[p].pc \in {"link_get", "sublinks_write"}
    /\ procs'[p] # procs[p]

\* the storage call of p failed, which with_error_handling answers with 500
Faulted(p) == procs'[p] = Done(procs[p], ErrorResponse(Fault))

\* C23: a storage call of create-sublink, update-sublink or delete-sublink
\* never adds a record to the links table; when the parent link is absent at
\* the read, or at the write-back (a delete-link came between the two), the
\* operation is answered 404 "Link not found", unless the call itself
\* failed, and the table still has no record of that id.
C23_SublinkNeverCreatesLink ==
    [][\A p \in Procs :
          SublinkCall(p)
          => /\ DOMAIN links' \subseteq DOMAIN links
             /\ procs[p].req.id \notin DOMAIN links
                => /\ procs[p].req.id \notin DOMAIN links'
                   /\ procs'[p].pc = "done"
                   /\ \/ Faulted(p)
                      \/ /\ procs'[p].status = 404
                         /\ procs'[p].message = "Link not found"]_vars

\* a sublink operation read its link, a delete-link was answered 204, and
\* the write-back was answered 404: the table has no record of the id
C23_Witness ==
    \E p, q \in Procs :
        /\ procs[p].pc = "done"
        /\ procs[p].req.op \in {"create_sublink", "update_sublink", "delete_sublink"}
        /\ "next" \in DOMAIN procs[p].local
        /\ procs[p].status = 404
        /\ procs[p].message = "Link not found"
        /\ procs[q].pc = "done"
        /\ procs[q].req.op = "delete_link"
        /\ procs[q].req.id = procs[p].req.id
        /\ procs[q].status = 204
        /\ procs[p].req.id \notin DOMAIN links

\* what an update-link body asks of the stored record: the attributes it
\* sets, with their new values, and the attributes it removes
Asked(body) ==
    LET ids == IF "categoryIds" \in DOMAIN body
               THEN [i \in 1..Len(body.categoryIds.v) |-> body.categoryIds.v[i].v]
               ELSE IF "categoryId" \in DOMAIN body THEN <<body.categoryId.v>>
               ELSE <<>>
        entry(e) == [f \in DOMAIN e.v |-> e.v[f].v]
    IN  [sets |-> (IF "name" \in DOMAIN body THEN [name |-> body.name.v] ELSE <<>>)
                  @@ (IF "url" \in DOMAIN body THEN [url |-> body.url.v] ELSE <<>>)
                  @@ (IF "description" \in DOMAIN body /\ body.description.t = "str"
                      THEN [description |-> body.description.v] ELSE <<>>)
                  @@ (IF ids # <<>> THEN [category_ids |-> ids, category_id |-> ids[1]]
                      ELSE <<>>)
                  @@ (IF "sublinks" \in DOMAIN body /\ body.sublinks.t = "list"
                      THEN [sublinks |-> [i \in 1..Len(body.sublinks.v) |->
                                             entry(body.sublinks.v[i])]]
                      ELSE <<>>),
         removes |-> (IF "description" \in DOMAIN body /\ body.description.t = "null"
                      THEN {"description"} ELSE {})
                     \cup (IF "sublinks" \in DOMAIN body /\ body.sublinks.t = "null"
                           THEN {"sublinks"} ELSE {})]

Names(asked) == DOMAIN asked.sets \cup asked.removes

LinkAttributes ==
    {"link_id", "name", "url", "description", "category_ids", "category_id", "sublinks"}

\* attribute a of item is what was asked
Carries(item, asked, a) ==
    IF a \in asked.removes THEN a \notin DOMAIN item
    ELSE a \in DOMAIN item /\ item[a] = asked.sets[a]

\* attribute a is the same in both items
SameAttribute(before, after, a) ==
    /\ (a \in DOMAIN after) <=> (a \in DOMAIN before)
    /\ a \in DOMAIN before => after[a] = before[a]

\* process p was answered 200 for its update-link
Updated(p) ==
    /\ procs[p].pc = "done"
    /\ procs[p].req.op = "update_link"
    /\ procs[p].status = 200

\* the update_item of p is applied in this step
AppliesUpdate(p) ==
    /\ procs[p].pc = "link_update"
    /\ procs'[p].pc = "done"
    /\ procs'[p].status = 200

\* the processes whose applied update-link names attribute a
Writers(a) == {p \in Procs : Updated(p) /\ a \in Names(Asked(procs[p].req.raw.v))}

\* after the update_item calls of overlapping update-links of the stored
\* link: an attribute named by one request carries its value, an attribute
\* named by several carries the value of one of them, any other is as stored
BothApplied ==
    \A a \in LinkAttributes :
        IF Writers(a) = {} THEN SameAttribute(StoredLink[LinkId(1)], links[LinkId(1)], a)
        ELSE \E p \in Writers(a) :
                Carries(links[LinkId(1)], Asked(procs[p].req.raw.v), a)

\* the update_item call that the store applies gives the attributes its
\* request names their new values and leaves every other as it finds it
LastApplied ==
    \A p \in Procs :
        AppliesUpdate(p)
        => LET id == procs[p].req.id
               asked == Asked(procs[p].req.raw.v)
           IN  \A a \in LinkAttributes :
                  IF a \in Names(asked) THEN Carries(links'[id], asked, a)
                  ELSE SameAttribute(links[id], links'[id], a)

\* C24: overlapping update-links of one stored link are last-write-wins per
\* attribute: each applied update_item sets exactly the attributes its request
\* names, so that after two of them an attribute named by one request has
\* that request's value whatever the order, an attribute named by both has
\* the value of the one applied last, and an attribute named by neither is
\* unchanged.
C24_LastWriteWinsPerField == []BothApplied /\ [][LastApplied]_vars

\* two overlapping update-links were answered 200: one named the name, the
\* other the url, and the record has both new values and its old description
C24_Witness ==
    \E p, q \in Procs :
        /\ Updated(p) /\ Updated(q)
        /\ DOMAIN procs[p].req.raw.v = {"name"}
        /\ DOMAIN procs[q].req.raw.v = {"url"}
        /\ links[LinkId(1)].name = procs[p].req.raw.v.name.v
        /\ links[LinkId(1)].url = UrlOther
        /\ links[LinkId(1)].description = DescD

\* the pending request is a get, update or delete of a stored link that a
\* delete-link has removed since (no create has brought the id back)
LinkGone ==
    /\ req.op \in {"get_link", "update_link", "delete_link"}
    /\ req.id \in DOMAIN StoredLink
    /\ req.id \notin DOMAIN links

\* likewise for a stored category
CategoryGone ==
    /\ req.op \in {"get_category", "update_category", "delete_category"}
    /\ req.id \in DOMAIN StoredCategories
    /\ req.id \notin DOMAIN categories

\* the body of the pending update has a field that sets a value
SetsValue ==
    /\ req.raw.t = "obj"
    /\ \E f \in DOMAIN req.raw.v : req.raw.v[f].t # "null"

\* C25: a delete answered 204 leaves no record of the id; every later get,
\* delete and update of that id, the update with a body that validation
\* accepts, is answered 404 and changes nothing, until a create brings the id
\* back.
C25_DeletedStaysGone ==
    [][/\ req.op \in {"delete_link", "delete_category"} /\ req' = NoRequest
          /\ resp'.statusCode = 204
          => req.id \notin DOMAIN (IF req.op = "delete_link" THEN links' ELSE categories')
       /\ (LinkGone \/ CategoryGone) /\ req' = NoRequest /\ resp'.statusCode # 400
          => /\ resp'.statusCode = 404
             /\ UNCHANGED <<categories, links>>]_vars

\* the same for the updates restricted to bodies that set a value
C25_DeletedStaysGoneWhenValueSet ==
    [][(LinkGone \/ CategoryGone) /\ req' = NoRequest /\ resp'.statusCode # 400
       /\ (req.op \in {"update_link", "update_category"} => SetsValue)
       => /\ resp'.statusCode = 404
          /\ UNCHANGED <<categories, links>>]_vars

\* a category was deleted, and the update of its id that only clears the
\* description was answered 500
C25_Witness ==
    /\ resp.op = "update_category"
    /\ resp.id \in DOMAIN StoredCategories
    /\ resp.id \notin DOMAIN categories
    /\ resp.statusCode = 500

\* C26: in every reachable state, every link that was stored through the
\* API has a category_ids list that is not empty and has no id twice, and its
\* category_id is the first id of the list.
C26_CategoryFieldsAgree ==
    \A l \in DOMAIN links :
        /\ {"category_ids", "category_id"} \subseteq DOMAIN links[l]
        /\ links[l].category_ids # <<>>
        /\ \A i, j \in 1..Len(links[l].category_ids) :
              i # j => links[l].category_ids[i] # links[l].category_ids[j]
        /\ links[l].category_id = links[l].category_ids[1]

\* an update-link has moved a stored link to another first category
C26_Witness ==
    /\ resp.op = "update_link"
    /\ resp.statusCode = 200
    /\ resp.id \in DOMAIN links
    /\ "categoryIds" \in DOMAIN resp.body.link
    /\ links[resp.id].category_ids[1] = CategoryId(2)
    /\ links[resp.id].category_id = CategoryId(2)

\* C27: an update-link that is answered with an error status (400 for an
\* invalid field, a missing category or no updatable field, 404 for a missing
\* link) leaves both tables as they were: a valid field of the same body is
\* not applied.
C27_FailedUpdateChangesNothing ==
    [][/\ req.op = "update_link"
       /\ req' = NoRequest
       /\ resp'.statusCode \in 400..499
       => UNCHANGED <<categories, links>>]_vars

\* a body with a valid new name and a category id that does not exist was
\* refused, and the stored link has its old name
C27_Witness ==
    /\ resp.op = "update_link"
    /\ resp.statusCode = 400
    /\ resp.body = [message |-> "categoryId must reference an existing category"]
    /\ resp.id \in DOMAIN links
    /\ links[resp.id].name = NameA

\* link l of the table has a sublinks attribute that is an empty list
EmptySublinksStored(tbl, l) ==
    /\ l \in DOMAIN tbl
    /\ "sublinks" \in DOMAIN tbl[l]
    /\ tbl[l].sublinks = <<>>

\* C28: in every reachable state, no stored link has a sublinks attribute
\* that is present and empty.
C28_NoEmptySublinksStored ==
    \A l \in DOMAIN links : ~EmptySublinksStored(links, l)

\* the one step that stores an empty list is an update-link whose body has
\* "sublinks": []
C28_EmptyOnlyFromUpdateLink ==
    [][\A l \in DOMAIN links' :
          EmptySublinksStored(links', l) /\ ~EmptySublinksStored(links, l)
          => /\ req.op = "update_link"
             /\ req.id = l
             /\ req.raw.t = "obj"
             /\ "sublinks" \in DOMAIN req.raw.v
             /\ req.raw.v.sublinks = JList(<<>>)]_vars

\* an update-link was answered 200 and the link has an empty sublinks list
C28_Witness ==
    /\ resp.op = "update_link"
    /\ resp.statusCode = 200
    /\ EmptySublinksStored(links, resp.id)

\* the stored links that name category c, in the list or in the legacy field
LinksNaming(c) ==
    {l \in DOMAIN links :
        \/ "category_ids" \in DOMAIN links[l]
           /\ c \in {links[l].category_ids[i] : i \in 1..Len(links[l].category_ids)}
        \/ "category_id" \in DOMAIN links[l] /\ links[l].category_id = c}

\* C29: whatever the page size, _category_has_links returns true exactly
\* when some stored link has the id in its category_ids or as its legacy
\* category_id: a page on which the filter leaves nothing does not end the
\* search while it carries a cursor.
C29_HasLinksIffReferenced ==
    resp.op = "has_links" => (resp.body.result <=> LinksNaming(resp.id) # {})

\* with one item per page, the first page has no link of the category and
\* carries a cursor, a later page has one, and the check returned true
C29_Witness ==
    /\ resp.op = "has_links"
    /\ resp.body.result
    /\ req.limit = 1
    /\ LinkId(1) \in DOMAIN links
    /\ LinkId(1) \notin LinksNaming(resp.id)
    /\ LinkId(2) \in LinksNaming(resp.id)

\* the path parameter of the pending event, empty when it has none
Supplied(name) ==
    IF name \in DOMAIN req.pathParameters THEN req.pathParameters[name] ELSE <<>>

\* the resource id of the pending event: the path parameter when it is not
\* empty, else the second segment of a path of the collection
ExpectedId(collection, name) ==
    LET segments == Segments(req.rawPath) IN
    IF Supplied(name) # <<>> THEN Supplied(name)
    ELSE IF Len(segments) >= 2 /\ segments[1] = collection THEN segments[2]
    ELSE <<>>

\* the sublink id of the pending event
ExpectedSublinkId ==
    LET segments == Segments(req.rawPath) IN
    IF Supplied("sublinkId") # <<>> THEN Supplied("sublinkId")
    ELSE IF Len(segments) >= 4 /\ segments[1] = LinksSegment /\ segments[3] = SublinksSegment
    THEN segments[4]
    ELSE <<>>

LinkOperations ==
    {"get_link", "update_link", "delete_link",
     "create_sublink", "update_sublink", "delete_sublink"}

CategoryOperations == {"get_category", "update_category", "delete_category"}

\* every record of the table but the one of id is as it was
OthersUntouched(before, after, id) ==
    \A k \in DOMAIN before \ {id} : k \in DOMAIN after /\ after[k] = before[k]

\* the pending operation on a link acts on link id (and sublink sid) alone
LinkOperationOn(id, sid) ==
    /\ resp'.id = id
    /\ req.op \in {"update_sublink", "delete_sublink"} => resp'.sid = sid
    /\ categories' = categories
    /\ OthersUntouched(links, links', id)
    /\ resp'.statusCode \in {200, 201} => resp'.body.link.id = id
    /\ resp'.statusCode = 204 => id \in DOMAIN links /\ id \notin DOMAIN links'
    /\ req.op = "update_link" /\ resp'.statusCode = 200 => links'[id].name = NameB
    /\ req.op = "delete_sublink" /\ resp'.statusCode = 200
       => /\ \E i \in 1..Len(StoredSublinks(links[id])) : links[id].sublinks[i].id = sid
          /\ \A i \in 1..Len(StoredSublinks(links'[id])) : links'[id].sublinks[i].id # sid

\* the pending operation on a category acts on category id alone
CategoryOperationOn(id) ==
    /\ resp'.id = id
    /\ links' = links
    /\ OthersUntouched(categories, categories', id)
    /\ resp'.statusCode = 200 => resp'.body.category.id = id
    /\ resp'.statusCode = 204 => id \in DOMAIN categories /\ id \notin DOMAIN categories'
    /\ req.op = "update_category" /\ resp'.statusCode = 200 => categories'[id].name = NameB

\* C30: the operation a request is routed to acts on the record whose id is
\* the path parameter (linkId, categoryId, sublinkId) when the event has a
\* non-empty one, and otherwise the id read from the segments of the raw
\* path: the second segment, and for a sublink the fourth segment of a path
\* links/{id}/sublinks/{sid}.
C30_IdsFromParametersThenPath ==
    [][/\ "pathParameters" \in DOMAIN req
       /\ req' = NoRequest
       => /\ req.op \in LinkOperations
             => LinkOperationOn(ExpectedId(LinksSegment, "linkId"), ExpectedSublinkId)
          /\ req.op \in CategoryOperations
             => CategoryOperationOn(ExpectedId(CategoriesSegment, "categoryId"))]_vars

\* a DELETE was answered 204 and removed the second link, which only a path
\* parameter names: the link of the path is still stored
C30_Witness ==
    /\ resp.op = "delete_link"
    /\ resp.statusCode = 204
    /\ resp.id = LinkId(2)
    /\ DOMAIN links = DOMAIN TwoLinks \ {LinkId(2)}

====
